---- MODULE Spec2Model ----
(***************************************************************************)
(* A model of the ruststack virtual machine: the byte memory, the 24-byte  *)
(* register file, the opcode table and the CPU's fetch / execute / step /  *)
(* run operations, as implemented in src/src/{memory,register,opcodes,     *)
(* cpu,lib,main}.rs.                                                       *)
(*                                                                         *)
(* A Memory is a sequence of bytes; address a is element a + 1.            *)
(* A CPU is a record [memory, registers_memory].                           *)
(* Every operation that can fail returns a record [c, k, v]:               *)
(*   k = "ok"    the call returned normally (v is its value),              *)
(*   k = "err"   it returned Err(CpuError::InvalidAddress(v)),             *)
(*   k = "panic" the thread panicked (unwrap of None, slice index out of   *)
(*               range, arithmetic overflow in a build that checks it),    *)
(*   k = "noarm" execute has no match arm for the decoded opcode.          *)
(* c is the CPU state at the point the call returned or stopped.           *)
(***************************************************************************)
EXTENDS Integers, Sequences, FiniteSets, TLC

\* ------------------------------------------------------------------ bounds
MemSize == 16
MaxInstrs == 2
MaxStackInstrs == 4
MaxLines == 5
MaxCalls == 3
LoopMemSize == 260
MaxLoopLines == 20
MaxNodes == 3
MaxRegCalls == 2
MemApiSize == 3
InspectSize == 10

\* --------------------------------------------------------------- constants
REGISTER_SIZE == 2
REGISTER_COUNT == 12
U16 == 256 * 256

IP == 0
ACC == 1
R1 == 2
R2 == 3
R3 == 4
R4 == 5
R5 == 6
R6 == 7
R7 == 8
R8 == 9
SP == 10
BP == 11

\* ------------------------------------------------------------------ lib.rs
to_u16(buf) == buf[1] * 256 + buf[2]

to_be_bytes(v) == <<v \div 256, v % 256>>

\* u16 addition and subtraction: the wrapped value and whether it overflowed
U16Add(a, b) == [ovf |-> a + b >= U16, v |-> (a + b) % U16]

U16Sub(a, b) == [ovf |-> a < b, v |-> (a - b + U16) % U16]

\* --------------------------------------------------------------- memory.rs
MemoryNew(size) == [i \in 1..size |-> 0]

MemGet(m, index) ==
    IF index < Len(m) THEN [some |-> TRUE, v |-> m[index + 1]]
                      ELSE [some |-> FALSE, v |-> 0]

\* set panics when the index is not inside the buffer
MemSet(m, index, value) ==
    IF index < Len(m) THEN [ok |-> TRUE, m |-> [m EXCEPT ![index + 1] = value]]
    ELSE [ok |-> FALSE, m |-> m]

\* mutant of inspect_addr: eight bytes are listed only while addr + 8 < len
inspect_addrShortAtEnd(m, addr) ==
    IF Len(m) < addr THEN [some |-> FALSE, addr |-> addr, v |-> <<>>]
    ELSE [some |-> TRUE, addr |-> addr,
          v |-> [k \in 1..((IF addr + 8 >= Len(m) THEN Len(m) - 1 ELSE addr + 8) - addr)
                     |-> m[addr + k]]]

\* inspect_addr: Err(InvalidAddress(addr)), or the text "0xAAAA: 0xBB ..."
\* given by the address and the bytes it lists in order
inspect_addr(m, addr) ==
    IF Len(m) < addr THEN [some |-> FALSE, addr |-> addr, v |-> <<>>]
    ELSE [some |-> TRUE, addr |-> addr,
          v |-> [k \in 1..((IF addr + 8 > Len(m) THEN Len(m) ELSE addr + 8) - addr)
                     |-> m[addr + k]]]

\* mutant of MemGetBuf: a range that ends at the end of the buffer is refused
MemGetBufExclusiveEnd(m, from, to) ==
    IF from <= to /\ to < Len(m)
    THEN [some |-> TRUE, v |-> [k \in 1..(to - from) |-> m[from + k]]]
    ELSE [some |-> FALSE, v |-> <<>>]

MemGetBuf(m, from, to) ==
    IF from <= to /\ to <= Len(m)
    THEN [some |-> TRUE, v |-> [k \in 1..(to - from) |-> m[from + k]]]
    ELSE [some |-> FALSE, v |-> <<>>]

\* set_buf panics when the range is not inside the buffer or the lengths differ
MemSetBuf(m, from, to, value) ==
    IF from <= to /\ to <= Len(m) /\ Len(value) = to - from
    THEN [ok |-> TRUE,
          m |-> [i \in 1..Len(m) |->
                   IF i > from /\ i <= to THEN value[i - from] ELSE m[i]]]
    ELSE [ok |-> FALSE, m |-> m]

\* -------------------------------------------------------------- opcodes.rs
\* the variants of the enum
OpCode ==
    { "MovLitReg", "MovRegReg", "MovRegMem", "MovMemReg", "AddRegReg",
      "JmpNELit", "PshReg", "PshLit", "Pop", "CalLit", "CalReg", "Ret",
      "Hlt", "MovLitMem", "MovRegPtrReg", "AddLitReg", "SubLitReg",
      "SubRegLit", "SubRegReg", "MulLitReg", "MulRegReg", "IncReg",
      "DecReg", "ShlRegLit", "ShlRegReg", "ShrRegLit", "ShrRegReg",
      "AndRegLit", "AndRegReg", "OrRegLit", "OrRegReg", "XorRegLit",
      "XorRegReg", "NotReg", "JmpNEReg", "JmpEQLit", "JmpEQReg",
      "JmpLTLit", "JmpLTReg", "JmpGTLit", "JmpGTReg", "JmpLELit",
      "JmpLEReg", "JmpGELit", "JmpGEReg", "Jmp", "SysLit", "Nop" }

\* mutant of Encode: Jmp is given the tag of SysLit
EncodeJmpAsSysLit(op) ==
    CASE op = "MovLitReg" -> 16 [] op = "MovRegReg" -> 17
      [] op = "MovRegMem" -> 18 [] op = "MovMemReg" -> 19
      [] op = "AddRegReg" -> 20 [] op = "JmpNELit" -> 21
      [] op = "PshReg" -> 22 [] op = "PshLit" -> 23
      [] op = "Pop" -> 24 [] op = "CalLit" -> 25
      [] op = "CalReg" -> 26 [] op = "Ret" -> 27
      [] op = "Hlt" -> 28 [] op = "MovLitMem" -> 29
      [] op = "MovRegPtrReg" -> 30 [] op = "AddLitReg" -> 32
      [] op = "SubLitReg" -> 33 [] op = "SubRegLit" -> 34
      [] op = "SubRegReg" -> 35 [] op = "MulLitReg" -> 36
      [] op = "MulRegReg" -> 37 [] op = "IncReg" -> 38
      [] op = "DecReg" -> 39 [] op = "ShlRegLit" -> 40
      [] op = "ShlRegReg" -> 41 [] op = "ShrRegLit" -> 42
      [] op = "ShrRegReg" -> 43 [] op = "AndRegLit" -> 44
      [] op = "AndRegReg" -> 45 [] op = "OrRegLit" -> 46
      [] op = "OrRegReg" -> 47 [] op = "XorRegLit" -> 48
      [] op = "XorRegReg" -> 49 [] op = "NotReg" -> 50
      [] op = "JmpNEReg" -> 51 [] op = "JmpEQLit" -> 52
      [] op = "JmpEQReg" -> 53 [] op = "JmpLTLit" -> 54
      [] op = "JmpLTReg" -> 55 [] op = "JmpGTLit" -> 56
      [] op = "JmpGTReg" -> 57 [] op = "JmpLELit" -> 58
      [] op = "JmpLEReg" -> 59 [] op = "JmpGELit" -> 60
      [] op = "JmpGEReg" -> 61 [] op = "Jmp" -> 63
      [] op = "SysLit" -> 63 [] op = "Nop" -> 0

Encode(op) ==
    CASE op = "MovLitReg" -> 16 [] op = "MovRegReg" -> 17
      [] op = "MovRegMem" -> 18 [] op = "MovMemReg" -> 19
      [] op = "AddRegReg" -> 20 [] op = "JmpNELit" -> 21
      [] op = "PshReg" -> 22 [] op = "PshLit" -> 23
      [] op = "Pop" -> 24 [] op = "CalLit" -> 25
      [] op = "CalReg" -> 26 [] op = "Ret" -> 27
      [] op = "Hlt" -> 28 [] op = "MovLitMem" -> 29
      [] op = "MovRegPtrReg" -> 30 [] op = "AddLitReg" -> 32
      [] op = "SubLitReg" -> 33 [] op = "SubRegLit" -> 34
      [] op = "SubRegReg" -> 35 [] op = "MulLitReg" -> 36
      [] op = "MulRegReg" -> 37 [] op = "IncReg" -> 38
      [] op = "DecReg" -> 39 [] op = "ShlRegLit" -> 40
      [] op = "ShlRegReg" -> 41 [] op = "ShrRegLit" -> 42
      [] op = "ShrRegReg" -> 43 [] op = "AndRegLit" -> 44
      [] op = "AndRegReg" -> 45 [] op = "OrRegLit" -> 46
      [] op = "OrRegReg" -> 47 [] op = "XorRegLit" -> 48
      [] op = "XorRegReg" -> 49 [] op = "NotReg" -> 50
      [] op = "JmpNEReg" -> 51 [] op = "JmpEQLit" -> 52
      [] op = "JmpEQReg" -> 53 [] op = "JmpLTLit" -> 54
      [] op = "JmpLTReg" -> 55 [] op = "JmpGTLit" -> 56
      [] op = "JmpGTReg" -> 57 [] op = "JmpLELit" -> 58
      [] op = "JmpLEReg" -> 59 [] op = "JmpGELit" -> 60
      [] op = "JmpGEReg" -> 61 [] op = "Jmp" -> 62
      [] op = "SysLit" -> 63 [] op = "Nop" -> 0

Decode(value) ==
    CASE value = 16 -> "MovLitReg" [] value = 17 -> "MovRegReg"
      [] value = 18 -> "MovRegMem" [] value = 19 -> "MovMemReg"
      [] value = 20 -> "AddRegReg" [] value = 21 -> "JmpNELit"
      [] value = 22 -> "PshReg" [] value = 23 -> "PshLit"
      [] value = 24 -> "Pop" [] value = 25 -> "CalLit"
      [] value = 26 -> "CalReg" [] value = 27 -> "Ret"
      [] value = 28 -> "Hlt" [] value = 29 -> "MovLitMem"
      [] value = 30 -> "MovRegPtrReg" [] value = 32 -> "AddLitReg"
      [] value = 33 -> "SubLitReg" [] value = 34 -> "SubRegLit"
      [] value = 35 -> "SubRegReg" [] value = 36 -> "MulLitReg"
      [] value = 37 -> "MulRegReg" [] value = 38 -> "IncReg"
      [] value = 39 -> "DecReg" [] value = 40 -> "ShlRegLit"
      [] value = 41 -> "ShlRegReg" [] value = 42 -> "ShrRegLit"
      [] value = 43 -> "ShrRegReg" [] value = 44 -> "AndRegLit"
      [] value = 45 -> "AndRegReg" [] value = 46 -> "OrRegLit"
      [] value = 47 -> "OrRegReg" [] value = 48 -> "XorRegLit"
      [] value = 49 -> "XorRegReg" [] value = 50 -> "NotReg"
      [] value = 51 -> "JmpNEReg" [] value = 52 -> "JmpEQLit"
      [] value = 53 -> "JmpEQReg" [] value = 54 -> "JmpLTLit"
      [] value = 55 -> "JmpLTReg" [] value = 56 -> "JmpGTLit"
      [] value = 57 -> "JmpGTReg" [] value = 58 -> "JmpLELit"
      [] value = 59 -> "JmpLEReg" [] value = 60 -> "JmpGELit"
      [] value = 61 -> "JmpGEReg" [] value = 62 -> "Jmp"
      [] value = 63 -> "SysLit" [] OTHER -> "Nop"

\* ------------------------------------------------------------------ cpu.rs
Ok(c, v) == [c |-> c, k |-> "ok", v |-> v]

InvalidAddress(c, a) == [c |-> c, k |-> "err", v |-> a]

Panic(c) == [c |-> c, k |-> "panic", v |-> 0]

NoArm(c) == [c |-> c, k |-> "noarm", v |-> 0]

\* `r?` and let-binding: continue with F on the value of a call that returned
\* normally, otherwise stop with what it returned
Then(r, F(_)) == IF r.k # "ok" THEN r ELSE F(r)

Let(x, F(_)) == F(x)

\* a write to the register file through Memory::set_buf
RegSetBuf(c, from, to, value) ==
    Let(MemSetBuf(c.registers_memory, from, to, value), LAMBDA w :
        IF w.ok THEN Ok([c EXCEPT !.registers_memory = w.m], FALSE) ELSE Panic(c))

\* a read of the register file through Memory::get_buf(..).unwrap()
RegGetBuf(c, from, to) ==
    Let(MemGetBuf(c.registers_memory, from, to), LAMBDA g :
        IF g.some THEN Ok(c, g.v) ELSE Panic(c))

get_register(c, reg) ==
    to_u16(MemGetBuf(c.registers_memory, reg * REGISTER_SIZE, reg * REGISTER_SIZE + 2).v)

\* mutant of set_register: the value is written at the register's index, not
\* at twice the index
set_registerAtIndex(c, reg, value) ==
    [c EXCEPT !.registers_memory =
        MemSetBuf(c.registers_memory, reg, reg + 2, to_be_bytes(value)).m]

set_register(c, reg, value) ==
    [c EXCEPT !.registers_memory =
        MemSetBuf(c.registers_memory, reg * REGISTER_SIZE, reg * REGISTER_SIZE + 2,
                  to_be_bytes(value)).m]

\* mutant of CPUNew: only the stack pointer is set, BP is left 0
CPUNewNoBP(memory) ==
    LET registers == MemoryNew(REGISTER_COUNT * REGISTER_SIZE)
        sp_idx == SP * REGISTER_SIZE
        memsize == to_be_bytes((Len(memory) - 2) % U16)
    IN  [memory |-> memory,
         registers_memory |-> MemSetBuf(registers, sp_idx, sp_idx + 2, memsize).m]

\* memory.len() - 2 is a usize subtraction, cast to u16
CPUNew(memory) ==
    LET registers == MemoryNew(REGISTER_COUNT * REGISTER_SIZE)
        sp_idx == SP * REGISTER_SIZE
        bp_idx == BP * REGISTER_SIZE
        memsize == to_be_bytes((Len(memory) - 2) % U16)
        r1 == MemSetBuf(registers, sp_idx, sp_idx + 2, memsize).m
        r2 == MemSetBuf(r1, bp_idx, bp_idx + 2, memsize).m
    IN  [memory |-> memory, registers_memory |-> r2]

\* mutant of fetch: IP is incremented before the bounds check
fetchIncrementFirst(c) ==
    Let(get_register(c, IP), LAMBDA ipval :
    Let(MemGet(c.memory, ipval), LAMBDA g :
        IF ~g.some THEN InvalidAddress(set_register(c, IP, (ipval + 1) % U16), ipval)
        ELSE Ok(set_register(c, IP, ipval + 1), g.v)))

\* ipval + 1 cannot overflow: get succeeded, so ipval < len <= 65535
fetch(c) ==
    Let(get_register(c, IP), LAMBDA ipval :
    Let(MemGet(c.memory, ipval), LAMBDA g :
        IF ~g.some THEN InvalidAddress(c, ipval)
        ELSE Ok(set_register(c, IP, ipval + 1), g.v)))

\* mutant of fetch_buf: a failed fetch restores IP to where the buffer began
RECURSIVE fetch_bufRollsBack(_, _)
fetch_bufRollsBack(c, n) ==
    IF n = 0 THEN Ok(c, <<>>)
    ELSE Then(fetch(c), LAMBDA f :
         Let(fetch_bufRollsBack(f.c, n - 1), LAMBDA rest :
             IF rest.k # "ok" THEN [rest EXCEPT !.c = c]
             ELSE Ok(rest.c, <<f.v>> \o rest.v)))

RECURSIVE fetch_buf(_, _)
fetch_buf(c, n) ==
    IF n = 0 THEN Ok(c, <<>>)
    ELSE Then(fetch(c), LAMBDA f :
         Then(fetch_buf(f.c, n - 1), LAMBDA rest :
             Ok(rest.c, <<f.v>> \o rest.v)))

\* mutant of push: SP is decremented first and the value written at the new SP
pushPreDecrement(c, value, oc) ==
    Let(get_register(c, SP), LAMBDA sp :
    Let(U16Sub(sp, 2), LAMBDA d :
        IF d.ovf /\ oc THEN Panic(c)
        ELSE Let(MemSetBuf(c.memory, d.v, d.v + 2, value), LAMBDA w :
             IF ~w.ok THEN Panic(c)
             ELSE Ok(set_register([c EXCEPT !.memory = w.m], SP, d.v), FALSE))))

push(c, value, oc) ==
    Let(get_register(c, SP), LAMBDA sp :
    Let(U16Add(sp, 2), LAMBDA to :
        IF to.ovf /\ oc THEN Panic(c)
        ELSE Let(MemSetBuf(c.memory, sp, to.v, value), LAMBDA w :
             IF ~w.ok THEN Panic(c)
             ELSE Let(U16Sub(sp, 2), LAMBDA d :
                  IF d.ovf /\ oc THEN Panic([c EXCEPT !.memory = w.m])
                  ELSE Ok(set_register([c EXCEPT !.memory = w.m], SP, d.v), FALSE)))))

\* mutant of pop: the value is read at SP before SP is incremented
popReadBeforeIncrement(c, oc) ==
    Let(get_register(c, SP), LAMBDA sp :
    Let(U16Add(sp, 2), LAMBDA next_sp :
        IF next_sp.ovf /\ oc THEN Panic(c)
        ELSE Let(MemGetBuf(c.memory, sp, sp + 2), LAMBDA g :
             IF ~g.some THEN Panic(set_register(c, SP, next_sp.v))
             ELSE Ok(set_register(c, SP, next_sp.v), g.v))))

pop(c, oc) ==
    Let(U16Add(get_register(c, SP), 2), LAMBDA next_sp :
        IF next_sp.ovf /\ oc THEN Panic(c)
        ELSE Let(MemGetBuf(c.memory, next_sp.v, next_sp.v + 2), LAMBDA g :
             IF ~g.some THEN Panic(set_register(c, SP, next_sp.v))
             ELSE Ok(set_register(c, SP, next_sp.v), g.v)))

\* mutant of fetch_reg_idx: the byte is not reduced modulo the register count
fetch_reg_idx_NoModulo(c) ==
    Then(fetch(c), LAMBDA f : Ok(f.c, f.v * 2))

fetch_reg_idx(c) ==
    Then(fetch(c), LAMBDA f : Ok(f.c, (f.v % REGISTER_COUNT) * 2))

\* execute: one match arm per opcode.  The source's arms JmpNE and NOP are the
\* variants the opcode table calls JmpNELit (0x15) and Nop (0x00); the other
\* variants of the table have no arm.
\* mutant of the MovLitReg arm: the literal is stored low byte first
ExecMovLitRegLittleEndian(c, oc) ==
    Then(fetch_buf(c, 2), LAMBDA lit :
    Then(fetch_reg_idx(lit.c), LAMBDA reg :
        RegSetBuf(reg.c, reg.v, reg.v + 2, <<lit.v[2], lit.v[1]>>)))

ExecMovLitReg(c, oc) ==
    Then(fetch_buf(c, 2), LAMBDA lit :
    Then(fetch_reg_idx(lit.c), LAMBDA reg :
        RegSetBuf(reg.c, reg.v, reg.v + 2, lit.v)))

ExecMovRegReg(c, oc) ==
    Then(fetch_reg_idx(c), LAMBDA reg_from :
    Then(fetch_reg_idx(reg_from.c), LAMBDA reg_to :
    Then(RegGetBuf(reg_to.c, reg_from.v, reg_from.v + 2), LAMBDA val :
        RegSetBuf(reg_to.c, reg_to.v, reg_to.v + 2, to_be_bytes(to_u16(val.v))))))

\* mutant of the MovRegMem arm: the register is stored low byte first
ExecMovRegMemLittleEndian(c, oc) ==
    Then(fetch_reg_idx(c), LAMBDA reg :
    Then(fetch_buf(reg.c, 2), LAMBDA addr :
    Then(RegGetBuf(addr.c, reg.v, reg.v + 2), LAMBDA val :
    Let(MemSetBuf(addr.c.memory, to_u16(addr.v), to_u16(addr.v) + 2, <<val.v[2], val.v[1]>>),
        LAMBDA w :
        IF ~w.ok THEN Panic(addr.c)
        ELSE Ok([addr.c EXCEPT !.memory = w.m], FALSE)))))

ExecMovRegMem(c, oc) ==
    Then(fetch_reg_idx(c), LAMBDA reg :
    Then(fetch_buf(reg.c, 2), LAMBDA addr :
    Then(RegGetBuf(addr.c, reg.v, reg.v + 2), LAMBDA val :
    Let(MemSetBuf(addr.c.memory, to_u16(addr.v), to_u16(addr.v) + 2, val.v), LAMBDA w :
        IF ~w.ok THEN Panic(addr.c)
        ELSE Ok([addr.c EXCEPT !.memory = w.m], FALSE)))))

ExecMovMemReg(c, oc) ==
    Then(fetch_buf(c, 2), LAMBDA addr :
    Then(fetch_reg_idx(addr.c), LAMBDA reg :
    Let(MemGetBuf(reg.c.memory, to_u16(addr.v), to_u16(addr.v) + 2), LAMBDA val :
        IF ~val.some THEN Panic(reg.c)
        ELSE RegSetBuf(reg.c, reg.v, reg.v + 2, val.v))))

\* mutant of the AddRegReg arm: the sum goes to the first operand register
ExecAddRegRegIntoFirst(c, oc) ==
    Then(fetch_reg_idx(c), LAMBDA r1_idx :
    Then(fetch_reg_idx(r1_idx.c), LAMBDA r2_idx :
    Then(RegGetBuf(r2_idx.c, r1_idx.v, r1_idx.v + 2), LAMBDA reg_val1 :
    Then(RegGetBuf(r2_idx.c, r2_idx.v, r2_idx.v + 2), LAMBDA reg_val2 :
    Let(U16Add(to_u16(reg_val1.v), to_u16(reg_val2.v)), LAMBDA result :
        IF result.ovf /\ oc THEN Panic(r2_idx.c)
        ELSE RegSetBuf(r2_idx.c, r1_idx.v, r1_idx.v + 2, to_be_bytes(result.v)))))))

ExecAddRegReg(c, oc) ==
    Then(fetch_reg_idx(c), LAMBDA r1_idx :
    Then(fetch_reg_idx(r1_idx.c), LAMBDA r2_idx :
    Then(RegGetBuf(r2_idx.c, r1_idx.v, r1_idx.v + 2), LAMBDA reg_val1 :
    Then(RegGetBuf(r2_idx.c, r2_idx.v, r2_idx.v + 2), LAMBDA reg_val2 :
    Let(U16Add(to_u16(reg_val1.v), to_u16(reg_val2.v)), LAMBDA result :
        IF result.ovf /\ oc THEN Panic(r2_idx.c)
        ELSE Ok(set_register(r2_idx.c, ACC, result.v), FALSE))))))

\* mutant of the JmpNE arm: the address is read first, then the value
ExecJmpNEAddressFirst(c, oc) ==
    Then(fetch_buf(c, 2), LAMBDA addr :
    Then(fetch_buf(addr.c, 2), LAMBDA value :
        IF to_u16(value.v) # get_register(value.c, ACC)
        THEN Ok(set_register(value.c, IP, to_u16(addr.v)), FALSE)
        ELSE Ok(value.c, FALSE)))

ExecJmpNE(c, oc) ==
    Then(fetch_buf(c, 2), LAMBDA value :
    Then(fetch_buf(value.c, 2), LAMBDA addr :
        IF to_u16(value.v) # get_register(addr.c, ACC)
        THEN Ok(set_register(addr.c, IP, to_u16(addr.v)), FALSE)
        ELSE Ok(addr.c, FALSE)))

ExecPshLit(c, oc) ==
    Then(fetch_buf(c, 2), LAMBDA value : push(value.c, value.v, oc))

ExecPshReg(c, oc) ==
    Then(fetch_reg_idx(c), LAMBDA reg :
    Then(RegGetBuf(reg.c, reg.v, reg.v + 2), LAMBDA value :
        push(reg.c, value.v, oc)))

\* mutant of the Pop arm: the popped slot is zeroed
ExecPopClearsSlot(c, oc) ==
    Then(fetch_reg_idx(c), LAMBDA reg_idx :
    Then(pop(reg_idx.c, oc), LAMBDA p :
    Let(MemSetBuf(p.c.memory, get_register(p.c, SP), get_register(p.c, SP) + 2, <<0, 0>>),
        LAMBDA w :
        RegSetBuf([p.c EXCEPT !.memory = w.m], reg_idx.v, reg_idx.v + 2, p.v))))

ExecPop(c, oc) ==
    Then(fetch_reg_idx(c), LAMBDA reg_idx :
    Then(pop(reg_idx.c, oc), LAMBDA p :
        RegSetBuf(p.c, reg_idx.v, reg_idx.v + 2, p.v)))

\* mutant of the CalLit arm: IP is pushed before the operand is fetched
ExecCalLitPushesEarly(c, oc) ==
    Then(push(c, to_be_bytes(get_register(c, IP)), oc), LAMBDA p :
    Then(fetch_buf(p.c, 2), LAMBDA addr :
        Ok(set_register(addr.c, IP, to_u16(addr.v)), FALSE)))

ExecCalLit(c, oc) ==
    Then(fetch_buf(c, 2), LAMBDA addr :
    Then(push(addr.c, to_be_bytes(get_register(addr.c, IP)), oc), LAMBDA p :
        Ok(set_register(p.c, IP, to_u16(addr.v)), FALSE)))

\* mutant of the CalReg arm: the register is read after the push
ExecCalRegReadsAfterPush(c, oc) ==
    Then(fetch_reg_idx(c), LAMBDA reg_idx :
    Then(push(reg_idx.c, to_be_bytes(get_register(reg_idx.c, IP)), oc), LAMBDA p :
    Then(RegGetBuf(p.c, reg_idx.v, reg_idx.v + 2), LAMBDA addr :
        Ok(set_register(p.c, IP, to_u16(addr.v)), FALSE))))

ExecCalReg(c, oc) ==
    Then(fetch_reg_idx(c), LAMBDA reg_idx :
    Then(RegGetBuf(reg_idx.c, reg_idx.v, reg_idx.v + 2), LAMBDA addr :
    Then(push(reg_idx.c, to_be_bytes(get_register(reg_idx.c, IP)), oc), LAMBDA p :
        Ok(set_register(p.c, IP, to_u16(addr.v)), FALSE))))

\* mutant of the Ret arm: the popped address is not written to IP
ExecRetKeepsIP(c, oc) ==
    Then(pop(c, oc), LAMBDA p : Ok(p.c, FALSE))

ExecRet(c, oc) ==
    Then(pop(c, oc), LAMBDA p : Ok(set_register(p.c, IP, to_u16(p.v)), FALSE))

\* mutant of the Hlt arm: it falls through to Ok(false)
ExecHltFallsThrough(c, oc) == Ok(c, FALSE)

\* mutant of the Hlt arm: IP is put back on the Hlt, every later step halts again
ExecHltStaysOnHlt(c, oc) == Ok(set_register(c, IP, get_register(c, IP) - 1), TRUE)

ExecHlt(c, oc) == Ok(c, TRUE)

\* mutant of the NOP arm: one more byte is fetched
ExecNopSkipsByte(c, oc) == Then(fetch(c), LAMBDA f : Ok(f.c, FALSE))

ExecNop(c, oc) == Ok(c, FALSE)

execute(c, instruction, oc) ==
    CASE instruction = "MovLitReg" -> ExecMovLitReg(c, oc)
      [] instruction = "MovRegReg" -> ExecMovRegReg(c, oc)
      [] instruction = "MovRegMem" -> ExecMovRegMem(c, oc)
      [] instruction = "MovMemReg" -> ExecMovMemReg(c, oc)
      [] instruction = "AddRegReg" -> ExecAddRegReg(c, oc)
      [] instruction = "JmpNELit" -> ExecJmpNE(c, oc)
      [] instruction = "PshLit" -> ExecPshLit(c, oc)
      [] instruction = "PshReg" -> ExecPshReg(c, oc)
      [] instruction = "Pop" -> ExecPop(c, oc)
      [] instruction = "CalLit" -> ExecCalLit(c, oc)
      [] instruction = "CalReg" -> ExecCalReg(c, oc)
      [] instruction = "Ret" -> ExecRet(c, oc)
      [] instruction = "Hlt" -> ExecHlt(c, oc)
      [] instruction = "Nop" -> ExecNop(c, oc)
      [] OTHER -> NoArm(c)

step(c, oc) ==
    Then(fetch(c), LAMBDA instruction :
        execute(instruction.c, Decode(instruction.v), oc))

\* ------------------------------------------------------------ assembler.rs
\* The AST (ast.rs): an argument is a record tagged t with the variant's
\* payload, a node is [node, args], a label definition [node, name].
Label(name) == [t |-> "Label", name |-> name]

Lit(lit) == [t |-> "Lit", lit |-> lit]

Reg(reg) == [t |-> "Reg", reg |-> reg]

Mem(arg) == [t |-> "Mem", arg |-> arg]

Offset(a, b) == [t |-> "Offset", a |-> a, b |-> b]

ASTNode(node, args) == [node |-> node, args |-> args]

LabelNode(name) == [node |-> "Label", name |-> name]

\* The assembler's image is Memory::default(), 65535 zero bytes.  It is kept
\* as the sequence of its bytes up to the last one written; every byte from
\* there to DEFAULT_SIZE - 1 is 0.
DEFAULT_SIZE == 65535

ImageByte(m, index) == IF index < Len(m) THEN m[index + 1] ELSE 0

\* Memory::set on the image (index < DEFAULT_SIZE)
ImageSet(m, index, value) ==
    IF index < Len(m) THEN [m EXCEPT ![index + 1] = value]
    ELSE m \o [i \in 1..(index - Len(m)) |-> 0] \o <<value>>

\* The state of assemble: the builder (memory, counter), label_addrs (a
\* function from the label names seen to their address), need_patching (a
\* sequence of <<label, mem_idx>>), and how it ended: k = "ok" (still going or
\* returned Ok), "err" (returned Err(e)), "panic".
AssemblerNew ==
    [memory |-> <<>>, counter |-> 0, label_addrs |-> <<>>, need_patching |-> <<>>,
     k |-> "ok", e |-> [error |-> "none"]]

InvalidArgument(st, arg) == [st EXCEPT !.k = "err", !.e = [error |-> "InvalidArgument", arg |-> arg]]

InvalidLabel(st, label) == [st EXCEPT !.k = "err", !.e = [error |-> "InvalidLabel", label |-> label]]

\* MemoryBuilder::push: Memory::set indexes the vector and panics out of range
BuilderPush(st, value) ==
    IF st.k # "ok" THEN st
    ELSE IF st.counter >= DEFAULT_SIZE THEN [st EXCEPT !.k = "panic"]
    ELSE [st EXCEPT !.memory = ImageSet(@, st.counter, value), !.counter = @ + 1]

BuilderPushU16(st, value) ==
    BuilderPush(BuilderPush(st, to_be_bytes(value)[1]), to_be_bytes(value)[2])

BuilderIncr(st) == IF st.k # "ok" THEN st ELSE [st EXCEPT !.counter = @ + 1]

BuilderSetCounter(st, counter) == IF st.k # "ok" THEN st ELSE [st EXCEPT !.counter = counter]

\* need_patching.push((label, mem_idx))
NeedPatching(st, label, mem_idx) ==
    IF st.k # "ok" THEN st
    ELSE [st EXCEPT !.need_patching = Append(@, <<label, mem_idx>>)]

\* builder.push(op.into())
PushOp(st, op) == BuilderPush(st, Encode(op))

\* reg_i!(reg): the register's index as a byte
PushReg(st, reg) == BuilderPush(st, reg.reg)

\* ASTNode::Label(name): label_addrs.insert(name, counter as u16)
\* mutant of the Label arm: a name that has an address keeps it
AsmLabelKeepsFirst(st, name) ==
    IF name \in DOMAIN st.label_addrs THEN st
    ELSE [st EXCEPT !.label_addrs =
             [n \in (DOMAIN @) \cup {name} |-> IF n = name THEN st.counter % U16 ELSE @[n]]]

AsmLabel(st, name) ==
    [st EXCEPT !.label_addrs =
        [n \in (DOMAIN @) \cup {name} |-> IF n = name THEN st.counter % U16 ELSE @[n]]]

\* a label operand of Jmp, Cal and Mov: the slot is recorded at the counter,
\* and the counter is incremented
LabelOperand(st, label) == BuilderIncr(NeedPatching(st, label, st.counter))

AsmMov(st, a1, a2) ==
    CASE a1.t = "Lit" /\ a2.t = "Reg" ->
            PushReg(BuilderPushU16(PushOp(st, "MovLitReg"), a1.lit), a2)
      [] a1.t = "Reg" /\ a2.t = "Reg" ->
            PushReg(PushReg(PushOp(st, "MovRegReg"), a1), a2)
      [] a1.t = "Reg" /\ a2.t = "Mem" ->
            Let(PushReg(PushOp(st, "MovRegMem"), a1), LAMBDA b :
                CASE a2.arg.t = "Label" -> LabelOperand(b, a2.arg.name)
                  [] a2.arg.t = "Lit" -> BuilderPushU16(b, a2.arg.lit)
                  [] a2.arg.t = "Reg" -> PushReg(b, a2.arg)
                  [] OTHER -> InvalidArgument(b, a2))
      [] a1.t = "Mem" /\ a2.t = "Reg" ->
            PushReg(
                CASE a1.arg.t = "Label" -> LabelOperand(PushOp(st, "MovMemReg"), a1.arg.name)
                  [] a1.arg.t = "Lit" -> BuilderPushU16(PushOp(st, "MovMemReg"), a1.arg.lit)
                  [] a1.arg.t = "Reg" -> PushReg(PushOp(st, "MovRegPtrReg"), a1.arg)
                  [] OTHER -> InvalidArgument(st, a2),
                a2)
      [] OTHER -> InvalidArgument(st, a1)

\* Add and Mul: (a, reg) with reg a register and a a register or a literal
AsmAdd(st, a, reg) ==
    IF reg.t # "Reg" THEN InvalidArgument(st, reg)
    ELSE CASE a.t = "Reg" -> PushReg(PushReg(PushOp(st, "AddRegReg"), a), reg)
           [] a.t = "Lit" -> PushReg(BuilderPushU16(PushOp(st, "AddLitReg"), a.lit), reg)
           [] OTHER -> InvalidArgument(st, a)

\* mutant of the Sub arm: Sub Lit, Reg is laid out register first
AsmSubRegisterFirst(st, a1, a2) ==
    CASE a1.t = "Reg" /\ a2.t = "Reg" ->
            PushReg(PushReg(PushOp(st, "SubRegReg"), a1), a2)
      [] a1.t = "Reg" /\ a2.t = "Lit" ->
            BuilderPushU16(PushReg(PushOp(st, "SubRegLit"), a1), a2.lit)
      [] a1.t = "Lit" /\ a2.t = "Reg" ->
            BuilderPushU16(PushReg(PushOp(st, "SubRegLit"), a2), a1.lit)
      [] OTHER -> InvalidArgument(st, a1)

AsmSub(st, a1, a2) ==
    CASE a1.t = "Reg" /\ a2.t = "Reg" ->
            PushReg(PushReg(PushOp(st, "SubRegReg"), a1), a2)
      [] a1.t = "Reg" /\ a2.t = "Lit" ->
            BuilderPushU16(PushReg(PushOp(st, "SubRegLit"), a1), a2.lit)
      [] a1.t = "Lit" /\ a2.t = "Reg" ->
            PushReg(BuilderPushU16(PushOp(st, "SubRegLit"), a1.lit), a2)
      [] OTHER -> InvalidArgument(st, a1)

AsmMul(st, a, reg) ==
    IF reg.t # "Reg" THEN InvalidArgument(st, reg)
    ELSE CASE a.t = "Reg" -> PushReg(PushReg(PushOp(st, "MulRegReg"), a), reg)
           [] a.t = "Lit" -> PushReg(BuilderPushU16(PushOp(st, "MulLitReg"), a.lit), reg)
           [] OTHER -> InvalidArgument(st, a)

\* Shl, Shr, And, Or: (reg, a) with reg a register and a a register or a literal
AsmShl(st, reg, a) ==
    IF reg.t # "Reg" THEN InvalidArgument(st, reg)
    ELSE CASE a.t = "Reg" -> PushReg(PushReg(PushOp(st, "ShlRegReg"), reg), a)
           [] a.t = "Lit" -> BuilderPushU16(PushReg(PushOp(st, "ShlRegLit"), reg), a.lit)
           [] OTHER -> InvalidArgument(st, a)

AsmShr(st, reg, a) ==
    IF reg.t # "Reg" THEN InvalidArgument(st, reg)
    ELSE CASE a.t = "Reg" -> PushReg(PushReg(PushOp(st, "ShrRegReg"), reg), a)
           [] a.t = "Lit" -> BuilderPushU16(PushReg(PushOp(st, "ShrRegLit"), reg), a.lit)
           [] OTHER -> InvalidArgument(st, a)

AsmAnd(st, reg, a) ==
    IF reg.t # "Reg" THEN InvalidArgument(st, reg)
    ELSE CASE a.t = "Reg" -> PushReg(PushReg(PushOp(st, "AndRegReg"), reg), a)
           [] a.t = "Lit" -> BuilderPushU16(PushReg(PushOp(st, "AndRegLit"), reg), a.lit)
           [] OTHER -> InvalidArgument(st, a)

AsmOr(st, reg, a) ==
    IF reg.t # "Reg" THEN InvalidArgument(st, reg)
    ELSE CASE a.t = "Reg" -> PushReg(PushReg(PushOp(st, "OrRegReg"), reg), a)
           [] a.t = "Lit" -> BuilderPushU16(PushReg(PushOp(st, "OrRegLit"), reg), a.lit)
           [] OTHER -> InvalidArgument(st, a)

AsmNot(st, reg) ==
    IF reg.t = "Reg" THEN PushReg(PushOp(st, "NotReg"), reg)
    ELSE InvalidArgument(st, reg)

\* both forms push the tag XorRegLit
AsmXor(st, reg, a) ==
    IF reg.t # "Reg" THEN InvalidArgument(st, reg)
    ELSE CASE a.t = "Lit" -> BuilderPushU16(PushReg(PushOp(st, "XorRegLit"), reg), a.lit)
           [] a.t = "Reg" -> PushReg(PushReg(PushOp(st, "XorRegLit"), reg), a)
           [] OTHER -> InvalidArgument(st, a)

\* a conditional jump (label, a): the tag, one byte skipped by
\* set_counter(get_counter() + 1), the literal or the register index, and the
\* label's slot recorded at get_counter() - 2
CondJump(st, label, a, opLit, opReg) ==
    IF label.t # "Label" THEN InvalidArgument(st, label)
    ELSE CASE a.t = "Lit" ->
                Let(PushOp(st, opLit), LAMBDA b :
                Let(BuilderPushU16(BuilderSetCounter(b, b.counter + 1), a.lit), LAMBDA d :
                    NeedPatching(d, label.name, d.counter - 2)))
           [] a.t = "Reg" ->
                Let(PushOp(st, opReg), LAMBDA b :
                Let(PushReg(BuilderSetCounter(b, b.counter + 1), a), LAMBDA d :
                    NeedPatching(d, label.name, d.counter - 2)))
           [] OTHER -> InvalidArgument(st, a)

AsmJne(st, label, a) == CondJump(st, label, a, "JmpNELit", "JmpNEReg")

AsmJeq(st, label, a) == CondJump(st, label, a, "JmpEQLit", "JmpEQReg")

AsmJlt(st, label, a) == CondJump(st, label, a, "JmpLTLit", "JmpLTReg")

AsmJgt(st, label, a) == CondJump(st, label, a, "JmpGTLit", "JmpGTReg")

AsmJle(st, label, a) == CondJump(st, label, a, "JmpLELit", "JmpLEReg")

AsmJge(st, label, a) == CondJump(st, label, a, "JmpGELit", "JmpGEReg")

AsmJmp(st, label) ==
    IF label.t # "Label" THEN InvalidArgument(st, label)
    ELSE LabelOperand(PushOp(st, "Jmp"), label.name)

AsmPsh(st, a) ==
    CASE a.t = "Lit" -> BuilderPushU16(PushOp(st, "PshLit"), a.lit)
      [] a.t = "Reg" -> PushReg(PushOp(st, "PshReg"), a)
      [] OTHER -> InvalidArgument(st, a)

AsmPop(st, reg) ==
    IF reg.t = "Reg" THEN PushReg(PushOp(st, "Pop"), reg)
    ELSE InvalidArgument(PushOp(st, "Pop"), reg)

AsmCal(st, a) ==
    CASE a.t = "Lit" -> BuilderPushU16(PushOp(st, "CalLit"), a.lit)
      [] a.t = "Reg" -> PushReg(PushOp(st, "CalReg"), a)
      [] a.t = "Label" -> LabelOperand(PushOp(st, "CalLit"), a.name)
      [] OTHER -> InvalidArgument(st, a)

AsmInc(st, reg) ==
    IF reg.t = "Reg" THEN PushReg(PushOp(st, "IncReg"), reg)
    ELSE InvalidArgument(PushOp(st, "IncReg"), reg)

AsmDec(st, reg) ==
    IF reg.t = "Reg" THEN PushReg(PushOp(st, "DecReg"), reg)
    ELSE InvalidArgument(PushOp(st, "DecReg"), reg)

\* a literal is pushed as one byte (lit as u8); a label reaches todo!()
AsmSys(st, val) ==
    CASE val.t = "Lit" -> BuilderPush(PushOp(st, "SysLit"), val.lit % 256)
      [] val.t = "Label" -> [PushOp(st, "SysLit") EXCEPT !.k = "panic"]
      [] OTHER -> InvalidArgument(PushOp(st, "SysLit"), val)

\* the body of the loop over the nodes: one arm per node
AssembleNode(st, n) ==
    CASE n.node = "Label" -> AsmLabel(st, n.name)
      [] n.node = "Mov" -> AsmMov(st, n.args[1], n.args[2])
      [] n.node = "Add" -> AsmAdd(st, n.args[1], n.args[2])
      [] n.node = "Sub" -> AsmSub(st, n.args[1], n.args[2])
      [] n.node = "Mul" -> AsmMul(st, n.args[1], n.args[2])
      [] n.node = "Shl" -> AsmShl(st, n.args[1], n.args[2])
      [] n.node = "Shr" -> AsmShr(st, n.args[1], n.args[2])
      [] n.node = "And" -> AsmAnd(st, n.args[1], n.args[2])
      [] n.node = "Or" -> AsmOr(st, n.args[1], n.args[2])
      [] n.node = "Not" -> AsmNot(st, n.args[1])
      [] n.node = "Xor" -> AsmXor(st, n.args[1], n.args[2])
      [] n.node = "Jne" -> AsmJne(st, n.args[1], n.args[2])
      [] n.node = "Jeq" -> AsmJeq(st, n.args[1], n.args[2])
      [] n.node = "Jlt" -> AsmJlt(st, n.args[1], n.args[2])
      [] n.node = "Jgt" -> AsmJgt(st, n.args[1], n.args[2])
      [] n.node = "Jle" -> AsmJle(st, n.args[1], n.args[2])
      [] n.node = "Jge" -> AsmJge(st, n.args[1], n.args[2])
      [] n.node = "Jmp" -> AsmJmp(st, n.args[1])
      [] n.node = "Psh" -> AsmPsh(st, n.args[1])
      [] n.node = "Pop" -> AsmPop(st, n.args[1])
      [] n.node = "Cal" -> AsmCal(st, n.args[1])
      [] n.node = "Inc" -> AsmInc(st, n.args[1])
      [] n.node = "Dec" -> AsmDec(st, n.args[1])
      [] n.node = "Sys" -> AsmSys(st, n.args[1])
      [] n.node = "Ret" -> PushOp(st, "Ret")
      [] n.node = "Hlt" -> PushOp(st, "Hlt")
      [] n.node = "Nop" -> PushOp(st, "Nop")

\* the loop over the nodes, from node i on; it is left at the first error
RECURSIVE LinearPass(_, _, _)
LinearPass(st, input, i) ==
    IF i > Len(input) \/ st.k # "ok" THEN st
    ELSE LinearPass(AssembleNode(st, input[i]), input, i + 1)

\* mutant of PatchPass: an entry whose label has no address is skipped
RECURSIVE PatchPassSkipsUndefined(_, _)
PatchPassSkipsUndefined(st, i) ==
    IF i > Len(st.need_patching) \/ st.k # "ok" THEN st
    ELSE Let(st.need_patching[i], LAMBDA entry :
         IF entry[1] \notin DOMAIN st.label_addrs THEN PatchPassSkipsUndefined(st, i + 1)
         ELSE PatchPassSkipsUndefined(BuilderPushU16(BuilderSetCounter(st, entry[2]),
                                                     st.label_addrs[entry[1]]),
                                      i + 1))

\* mutant of PatchPass: the address is written low byte first
RECURSIVE PatchPassLittleEndian(_, _)
PatchPassLittleEndian(st, i) ==
    IF i > Len(st.need_patching) \/ st.k # "ok" THEN st
    ELSE Let(st.need_patching[i], LAMBDA entry :
         IF entry[1] \notin DOMAIN st.label_addrs THEN InvalidLabel(st, entry[1])
         ELSE PatchPassLittleEndian(
                  BuilderPush(BuilderPush(BuilderSetCounter(st, entry[2]),
                                          st.label_addrs[entry[1]] % 256),
                              st.label_addrs[entry[1]] \div 256),
                  i + 1))

\* the loop over need_patching, from entry i on
RECURSIVE PatchPass(_, _)
PatchPass(st, i) ==
    IF i > Len(st.need_patching) \/ st.k # "ok" THEN st
    ELSE Let(st.need_patching[i], LAMBDA entry :
         IF entry[1] \notin DOMAIN st.label_addrs THEN InvalidLabel(st, entry[1])
         ELSE PatchPass(BuilderPushU16(BuilderSetCounter(st, entry[2]),
                                       st.label_addrs[entry[1]]),
                        i + 1))

\* Assembler::assemble: the state after the linear pass and after patching
assemble(input) ==
    Let(LinearPass(AssemblerNew, input, 1), LAMBDA pass :
        [pass |-> pass, out |-> PatchPass(pass, 1)])

\* ------------------------------------------------------------------- state
VARIABLES
    image,            \* the Memory handed to CPU::new
    cpu,              \* the CPU: [memory, registers_memory]
    stdin,            \* lines still to come on standard input (run reads one per step)
    status,           \* "running", "returned_ok", "returned_err", "panicked", "noarm"
    overflow_checks,  \* whether the build checks integer overflow (debug) or wraps (release)
    trace,            \* history: the CPU after construction and after every call
    results           \* history: what every call returned, [call, k, v]

vars == <<image, cpu, stdin, status, overflow_checks, trace, results>>

\* ------------------------------------------------------------------ inputs
\* Images are programs laid out from address 0 in a zeroed memory, as the
\* tests of lib.rs build them; instructions are given by their bytes.
Nop == <<0>>
Hlt == <<28>>
Ret == <<27>>
PshLit(hi, lo) == <<23, hi, lo>>
PshReg(r) == <<22, r>>
Pop(r) == <<24, r>>
CalLit(hi, lo) == <<25, hi, lo>>
CalReg(r) == <<26, r>>
MovLitReg(hi, lo, r) == <<16, hi, lo, r>>
MovRegReg(a, b) == <<17, a, b>>
MovRegMem(r, hi, lo) == <<18, r, hi, lo>>
MovMemReg(hi, lo, r) == <<19, hi, lo, r>>
AddRegReg(a, b) == <<20, a, b>>
JmpNELit(b1, b2, b3, b4) == <<21, b1, b2, b3, b4>>
Jmp(hi, lo) == <<62, hi, lo>>

Instrs ==
    { Nop, Hlt, Ret, PshLit(1, 2), Pop(2), MovLitReg(0, 9, ACC),
      MovLitReg(0, MemSize + 4, IP), MovLitReg(0, MemSize - 1, IP),
      AddRegReg(SP, ACC), JmpNELit(0, 0, 0, 9), JmpNELit(0, 9, 0, 0),
      MovRegMem(SP, 0, 8), MovMemReg(0, 0, R1), Jmp(0, 3) }

StackInstrs ==
    { PshLit(1, 2), PshLit(0, 7), PshReg(SP), Pop(R1), Pop(SP),
      CalLit(0, 3), CalReg(R1), Ret, MovLitReg(0, 1, SP) }

\* one or two instructions with a register operand byte b, for every byte b
RegIdxPrograms ==
    UNION { { MovLitReg(1, 2, b) \o MovRegReg(b, R2),
              MovLitReg(1, 2, R1) \o MovRegReg(15, b),
              MovLitReg(1, 2, R1) \o PshReg(b),
              PshLit(1, 2) \o Pop(b) } : b \in 0..255 }

RECURSIVE Programs(_, _)
Programs(alphabet, n) ==
    IF n = 0 THEN {<<>>}
    ELSE LET shorter == Programs(alphabet, n - 1)
         IN  shorter \cup {p \o a : p \in shorter, a \in alphabet}

Image(p) == p \o [i \in 1..(MemSize - Len(p)) |-> 0]

Images(alphabet, n) == {Image(p) : p \in {q \in Programs(alphabet, n) : Len(q) <= MemSize}}

InitWith(images, lines) ==
    /\ image \in images
    /\ cpu = CPUNew(image)
    /\ stdin \in lines
    /\ status = "running"
    /\ overflow_checks \in BOOLEAN
    /\ trace = <<cpu>>
    /\ results = <<>>

Init == InitWith(Images(Instrs, MaxInstrs), 0..MaxLines)

InitStack == InitWith(Images(StackInstrs, MaxStackInstrs), {MaxLines + 1})

InitApi == InitWith(Images(Instrs, MaxInstrs), {0})

InitRegIdx == InitWith({Image(p) : p \in RegIdxPrograms}, {1, 2})

\* programs for the instruction semantics: every short program over the
\* instructions execute has an arm for (and Jmp), every byte value in opcode
\* position, a store and a load at every address in and just outside memory
\* and at the top of the address space, and additions of small and large values
ExecInstrs ==
    Instrs \cup { CalLit(0, 3), CalReg(R1), PshReg(IP), MovRegReg(SP, R1),
                  MovLitReg(255, 255, R1), AddRegReg(R1, R1), MovRegMem(IP, 0, 6),
                  CalReg(IP), CalReg(SP), MovLitReg(0, 1, SP) }

OpByteProgram(b) == <<b, 2, 0, 3>>

ExecAddrs == (0..(MemSize + 1)) \cup {U16 - 2, U16 - 1}

StoreLoadProgram(r, a) ==
    MovLitReg(18, 52, R1) \o MovRegMem(r, a \div 256, a % 256)
        \o MovMemReg(a \div 256, a % 256, R2)

AddValues == {<<0, 1>>, <<18, 52>>, <<128, 0>>, <<255, 255>>}

AddProgram(a, b) ==
    MovLitReg(a[1], a[2], R1) \o MovLitReg(b[1], b[2], R2) \o AddRegReg(R1, R2)

\* a jump to an instruction with a multi-byte operand that starts d bytes
\* before the end of memory
TailOpBytes == {16, 18, 19, 21, 23, 25}

TailProgram(op, d) ==
    MovLitReg(0, MemSize - d, IP) \o [i \in 1..(MemSize - d - 4) |-> 0]
        \o [i \in 1..d |-> IF i = 1 THEN op ELSE i + 1]

ExecPrograms ==
    {q \in Programs(ExecInstrs, MaxInstrs) : Len(q) <= MemSize}
        \cup {OpByteProgram(b) : b \in 0..255}
        \cup {StoreLoadProgram(r, a) : r \in {R1, IP}, a \in ExecAddrs}
        \cup {AddProgram(a, b) : a \in AddValues, b \in AddValues}
        \cup {TailProgram(op, d) : op \in TailOpBytes, d \in 1..5}

\* programs for the assembler: every sequence of up to MaxNodes nodes over
\* label definitions, the instructions that take a label operand, and
\* instructions without one
AsmNodes ==
    { LabelNode("a"), LabelNode("end"),
      ASTNode("Jmp", <<Label("a")>>), ASTNode("Jmp", <<Label("end")>>),
      ASTNode("Cal", <<Label("end")>>),
      ASTNode("Mov", <<Reg(R1), Mem(Label("a"))>>),
      ASTNode("Mov", <<Mem(Label("end")), Reg(R2)>>),
      ASTNode("Jne", <<Label("a"), Lit(3)>>),
      ASTNode("Jeq", <<Label("end"), Reg(R1)>>),
      ASTNode("Mov", <<Lit(4660), Reg(R1)>>),
      ASTNode("Psh", <<Reg(R2)>>),
      ASTNode("Nop", <<>>), ASTNode("Hlt", <<>>) }

\* programs that define the label a twice or three times, with a reference
\* before, between and after the definitions
LabelRefNodes ==
    { ASTNode("Jmp", <<Label("a")>>), ASTNode("Mov", <<Reg(R1), Mem(Label("a"))>>),
      ASTNode("Jne", <<Label("a"), Lit(3)>>) }

RedefinitionPrograms ==
    UNION { { <<r, LabelNode("a"), r, LabelNode("a"), r>>,
              <<r, LabelNode("a"), ASTNode("Hlt", <<>>), LabelNode("a"), r,
                LabelNode("a"), ASTNode("Nop", <<>>)>> } : r \in LabelRefNodes }

AsmPrograms == Programs({<<n>> : n \in AsmNodes}, MaxNodes) \cup RedefinitionPrograms

InitAsm == InitWith({Image(<<>>)}, {0}) /\ overflow_checks = FALSE

\* operands of every variant of ASTArg, and of Mem every inner variant
FormArgs ==
    { Lit(4660), Reg(R1), Reg(R2), Label("a"),
      Mem(Lit(258)), Mem(Reg(R3)), Mem(Label("a")), Mem(Offset(Lit(1), Reg(R1))),
      Offset(Lit(1), Mem(Lit(2))) }

BinaryNodes ==
    {"Mov", "Add", "Sub", "Mul", "Shl", "Shr", "And", "Or", "Xor",
     "Jne", "Jeq", "Jlt", "Jgt", "Jle", "Jge"}

UnaryNodes == {"Not", "Jmp", "Psh", "Pop", "Cal", "Inc", "Dec", "Sys"}

\* every instruction node with every combination of those operands
FormNodes ==
    {ASTNode(node, <<a1, a2>>) : node \in BinaryNodes, a1 \in FormArgs, a2 \in FormArgs}
        \cup {ASTNode(node, <<a>>) : node \in UnaryNodes, a \in FormArgs}
        \cup {ASTNode(node, <<>>) : node \in {"Ret", "Hlt", "Nop"}}

\* the nodes before and after the instruction: nothing, the label it may
\* refer to defined before or after it, a reference to a label the program
\* does not define, an instruction with an operand that is not permitted
FormContexts ==
    { <<<<>>, <<>>>>,
      <<<<ASTNode("Nop", <<>>), LabelNode("a")>>, <<>>>>,
      <<<<>>, <<ASTNode("Hlt", <<>>), LabelNode("a")>>>>,
      <<<<ASTNode("Jmp", <<Label("u")>>)>>, <<ASTNode("Psh", <<Mem(Lit(7))>>)>>>>,
      <<<<LabelNode("a")>>, <<ASTNode("Jmp", <<Label("u")>>)>>>> }

FormPrograms == {c[1] \o <<n>> \o c[2] : c \in FormContexts, n \in FormNodes}

InitForms == InitWith({Image(<<>>)}, {0}) /\ overflow_checks = FALSE

\* values written to registers: small, with distinct bytes, largest
RegValues == {1, 258, U16 - 1}

InitRegs == InitWith({Image(<<>>)}, {0}) /\ overflow_checks = FALSE

\* the memories whose methods are called: zeroed ones of every length up to
\* MemApiSize, and one of InspectSize bytes that holds 1, 2, 3, ...
ApiMemories ==
    {MemoryNew(n) : n \in 0..MemApiSize} \cup {[i \in 1..InspectSize |-> i]}

\* indices and addresses passed to the methods: the first ones, and those
\* around the end of the memory m
ApiIndices(m) ==
    (0..(MemApiSize + 1)) \cup {a \in (Len(m) - 9)..(Len(m) + 1) : a >= 0}

\* indices written to: the first ones, and the first one outside m
ApiWriteIndices(m) == (0..(MemApiSize - 1)) \cup {Len(m)}

\* in SpecMem image is the Memory under the calls, trace holds the memory
\* before the last call and the byte last written at every index, results
\* holds the last call
InitMem ==
    /\ image \in ApiMemories
    /\ cpu = CPUNew(Image(<<>>))
    /\ stdin = 0
    /\ status = "running"
    /\ overflow_checks = FALSE
    /\ trace = <<image, image>>
    /\ results = <<>>

InitOpcodes == InitWith({Image(<<>>)}, {0}) /\ overflow_checks = FALSE

InitExec == InitWith({Image(p) : p \in ExecPrograms}, {MaxLines})

\* the loop of test_conditional_jne: the four instructions before the jump, the
\* jump given by its bytes, and a two-byte data cell at 0x0100 whose low byte is d
LoopBody ==
    MovMemReg(1, 0, R1) \o MovLitReg(0, 16, R2) \o AddRegReg(R1, R2) \o MovRegMem(ACC, 1, 0)

LoopImage(jmp, d) ==
    [i \in 1..LoopMemSize |->
        IF i <= Len(LoopBody \o jmp) THEN (LoopBody \o jmp)[i]
        ELSE IF i = 258 THEN d ELSE 0]

\* the jump as the test writes it (bytes 00 03 00 00), and the jump "address
\* 0x0000, value 0x0030" laid out value first and address first
LoopJumps == {JmpNELit(0, 3, 0, 0), JmpNELit(0, 48, 0, 0), JmpNELit(0, 0, 0, 48)}

InitLoop == InitWith({LoopImage(j, d) : j \in LoopJumps, d \in {0, 16}}, {MaxLoopLines})

\* ----------------------------------------------------------------- actions
Record(call, r) ==
    /\ cpu' = r.c
    /\ trace' = Append(trace, r.c)
    /\ results' = Append(results, [call |-> call, k |-> r.k, v |-> r.v])

\* mutant of RunStep: the loop breaks when step reports not halted
RunStepBreakInverted ==
    /\ status = "running"
    /\ stdin > 0
    /\ stdin' = stdin - 1
    /\ \E r \in {step(cpu, overflow_checks)} :
           /\ Record("step", r)
           /\ status' = IF r.k = "ok" THEN (IF r.v THEN "running" ELSE "returned_ok")
                        ELSE IF r.k = "err" THEN "returned_err"
                        ELSE IF r.k = "panic" THEN "panicked"
                        ELSE "noarm"
    /\ UNCHANGED <<image, overflow_checks>>

\* one iteration of the loop of run: a line arrives on stdin, step is called;
\* halted breaks the loop (run returns Ok), an error is returned by `?`
RunStep ==
    /\ status = "running"
    /\ stdin > 0
    /\ stdin' = stdin - 1
    /\ \E r \in {step(cpu, overflow_checks)} :
           /\ Record("step", r)
           /\ status' = IF r.k = "ok" THEN (IF r.v THEN "returned_ok" ELSE "running")
                        ELSE IF r.k = "err" THEN "returned_err"
                        ELSE IF r.k = "panic" THEN "panicked"
                        ELSE "noarm"
    /\ UNCHANGED <<image, overflow_checks>>

\* stdin is exhausted: the for loop of run ends and run returns Ok(())
RunEof ==
    /\ status = "running"
    /\ stdin = 0
    /\ status' = "returned_ok"
    /\ UNCHANGED <<image, cpu, stdin, overflow_checks, trace, results>>

\* a caller invokes cpu.step() directly, as the tests of lib.rs do
StepCall ==
    /\ status = "running"
    /\ Len(results) < MaxCalls
    /\ \E r \in {step(cpu, overflow_checks)} :
           /\ Record("step", r)
           /\ status' = IF r.k = "panic" THEN "panicked"
                        ELSE IF r.k = "noarm" THEN "noarm"
                        ELSE "running"
    /\ UNCHANGED <<image, stdin, overflow_checks>>

\* a caller invokes cpu.fetch() directly
FetchCall ==
    /\ status = "running"
    /\ Len(results) < MaxCalls
    /\ \E r \in {fetch(cpu)} : Record("fetch", r)
    /\ UNCHANGED <<image, stdin, status, overflow_checks>>

\* a caller invokes cpu.set_register(reg, value) or cpu.get_register(reg)
SetRegisterCall ==
    /\ Len(results) < MaxRegCalls
    /\ \E reg \in 0..(REGISTER_COUNT - 1) : \E value \in RegValues :
           Record("set_register",
                  Ok(set_register(cpu, reg, value), [reg |-> reg, value |-> value]))
    /\ UNCHANGED <<image, stdin, status, overflow_checks>>

GetRegisterCall ==
    /\ Len(results) < MaxRegCalls
    /\ \E reg \in 0..(REGISTER_COUNT - 1) :
           Record("get_register", Ok(cpu, [reg |-> reg, value |-> get_register(cpu, reg)]))
    /\ UNCHANGED <<image, stdin, status, overflow_checks>>

\* a caller invokes a method of Memory; written is the byte last written at
\* every index after the call
MemCalled(call, k, m, written, a, b, out) ==
    /\ image' = m
    /\ trace' = <<image, written>>
    /\ results' = <<[call |-> call, k |-> k, v |-> [a |-> a, b |-> b, out |-> out]]>>
    /\ status' = IF k = "panic" THEN "panicked" ELSE status
    /\ UNCHANGED <<cpu, stdin, overflow_checks>>

MemSetCall ==
    /\ status = "running"
    /\ \E index \in ApiWriteIndices(image) : \E value \in {7, 255} :
       \E w \in {MemSet(image, index, value)} :
           MemCalled("set", IF w.ok THEN "ok" ELSE "panic", w.m,
                     [i \in 1..Len(image) |->
                         IF w.ok /\ i = index + 1 THEN value ELSE trace[2][i]],
                     index, value, <<>>)

MemSetBufCall ==
    /\ status = "running"
    /\ \E from \in ApiWriteIndices(image) :
       \E w \in {MemSetBuf(image, from, from + 2, <<1, 2>>)} :
           MemCalled("set_buf", IF w.ok THEN "ok" ELSE "panic", w.m,
                     [i \in 1..Len(image) |->
                         IF w.ok /\ i = from + 1 THEN 1
                         ELSE IF w.ok /\ i = from + 2 THEN 2 ELSE trace[2][i]],
                     from, from + 2, <<1, 2>>)

MemGetCall ==
    /\ status = "running"
    /\ \E index \in ApiIndices(image) : \E g \in {MemGet(image, index)} :
           MemCalled("get", IF g.some THEN "ok" ELSE "none", image, trace[2],
                     index, 0, IF g.some THEN <<g.v>> ELSE <<>>)

MemGetBufCall ==
    /\ status = "running"
    /\ \E from \in ApiIndices(image) : \E to \in ApiIndices(image) :
       \E g \in {MemGetBuf(image, from, to)} :
           MemCalled("get_buf", IF g.some THEN "ok" ELSE "none", image, trace[2],
                     from, to, g.v)

InspectCall ==
    /\ status = "running"
    /\ \E addr \in ApiIndices(image) : \E r \in {inspect_addr(image, addr)} :
           MemCalled("inspect_addr", IF r.some THEN "ok" ELSE "err", image, trace[2],
                     r.addr, 0, r.v)

\* a caller converts an opcode to its byte (u8::from(op)) or a byte to an
\* opcode (OpCode::from(value)); results keeps the last encoding and the
\* decoding that came last after it
Converted(kept, call, op, byte) ==
    /\ results' = kept \o <<[call |-> call, k |-> "ok", v |-> [op |-> op, byte |-> byte]]>>
    /\ UNCHANGED <<image, cpu, stdin, status, overflow_checks, trace>>

EncodeCall == \E op \in OpCode : Converted(<<>>, "encode", op, Encode(op))

DecodeCall ==
    \E value \in 0..255 :
        Converted(IF results # <<>> /\ results[1].call = "encode" THEN <<results[1]>> ELSE <<>>,
                  "decode", Decode(value), value)

\* a caller assembles a program (main.rs); results holds the call: its input,
\* the assembler's state after the linear pass, and what it returned
AssembleCall ==
    /\ results = <<>>
    /\ \E input \in AsmPrograms : \E r \in {assemble(input)} :
           results' = <<[call |-> "assemble", k |-> r.out.k,
                         v |-> [input |-> input, pass |-> r.pass, out |-> r.out]]>>
    /\ UNCHANGED <<image, cpu, stdin, status, overflow_checks, trace>>

\* a caller assembles one instruction of any form in one of the contexts
AssembleFormCall ==
    /\ results = <<>>
    /\ \E input \in FormPrograms : \E r \in {assemble(input)} :
           results' = <<[call |-> "assemble", k |-> r.out.k,
                         v |-> [input |-> input, pass |-> r.pass, out |-> r.out]]>>
    /\ UNCHANGED <<image, cpu, stdin, status, overflow_checks, trace>>

Next == RunStep \/ RunEof

NextAsm == AssembleCall

NextForms == AssembleFormCall

NextRegs == SetRegisterCall \/ GetRegisterCall

NextMem == MemSetCall \/ MemSetBufCall \/ MemGetCall \/ MemGetBufCall \/ InspectCall

NextOpcodes == EncodeCall \/ DecodeCall

NextApi == StepCall \/ FetchCall

Spec == Init /\ [][Next]_vars

SpecStack == InitStack /\ [][Next]_vars

SpecApi == InitApi /\ [][NextApi]_vars

SpecRegIdx == InitRegIdx /\ [][Next]_vars

SpecLoop == InitLoop /\ [][Next]_vars

SpecExec == InitExec /\ [][Next]_vars

SpecOpcodes == InitOpcodes /\ [][NextOpcodes]_vars

SpecAsm == InitAsm /\ [][NextAsm]_vars

SpecRegs == InitRegs /\ [][NextRegs]_vars

SpecMem == InitMem /\ [][NextMem]_vars

SpecForms == InitForms /\ [][NextForms]_vars

\* ------------------------------------------------------------ observations
\* What the properties read off a CPU state and off the history, written
\* directly on the bytes (not through the operations under check).
RegVal(c, r) == c.registers_memory[2 * r + 1] * 256 + c.registers_memory[2 * r + 2]

Byte(c, a) == c.memory[a + 1]

Word(c, a) == <<c.memory[a + 1], c.memory[a + 2]>>

MemLen(c) == Len(c.memory)

NCalls == Len(results)

Pre(i) == trace[i]

Post(i) == trace[i + 1]

PreIP(i) == RegVal(Pre(i), IP)

IsStep(i) == results[i].call = "step"

Completed(i) == results[i].k = "ok"

\* the step fetched an opcode byte, and which
Fetched(i) == IsStep(i) /\ PreIP(i) < MemLen(Pre(i))

OpByte(i) == Byte(Pre(i), PreIP(i))

\* operand byte j of the instruction of step i, and whether n operand bytes are in memory
Arg(i, j) == Byte(Pre(i), PreIP(i) + j)

HasArgs(i, n) == Fetched(i) /\ PreIP(i) + n < MemLen(Pre(i))

\* the registers other than those in `except` are the same in c and d
SameRegsExcept(c, d, except) ==
    \A r \in 0..(REGISTER_COUNT - 1) : r \in except \/ RegVal(c, r) = RegVal(d, r)

\* the register file of step i once the instruction's n operand bytes are fetched
RegsAfterFetch(i, n) ==
    [Pre(i).registers_memory EXCEPT ![1] = (PreIP(i) + 1 + n) \div 256,
                                    ![2] = (PreIP(i) + 1 + n) % 256]

RegBytes(regs, r) == <<regs[2 * r + 1], regs[2 * r + 2]>>

\* ------------------------------------------------------------------ claims

\* C1: a CPU constructed over a memory of size memsize >= 2 starts with IP = 0,
\* ACC = 0, R1..R8 = 0 and SP = BP = memsize - 2, and its memory is exactly
\* the memory passed in.
C1_Construction ==
    /\ Len(image) >= 2
    /\ trace[1].memory = image
    /\ Len(trace[1].registers_memory) = 24
    /\ RegVal(trace[1], IP) = 0
    /\ RegVal(trace[1], ACC) = 0
    /\ \A r \in R1..R8 : RegVal(trace[1], r) = 0
    /\ RegVal(trace[1], SP) = Len(image) - 2
    /\ RegVal(trace[1], BP) = Len(image) - 2
    /\ (NCalls = 0 => cpu = trace[1])

C1_Witness ==
    /\ NCalls = 0
    /\ status = "running"
    /\ \E a \in 1..Len(image) : image[a] # 0
    /\ RegVal(cpu, SP) = MemSize - 2

\* C2: fetch with IP < memsize returns mem[IP] and changes nothing except IP,
\* which becomes IP + 1; fetch with IP >= memsize returns InvalidAddress(IP)
\* and leaves every register and every memory byte unchanged.
C2_Fetch ==
    \A i \in 1..NCalls :
        results[i].call = "fetch" =>
            IF PreIP(i) < MemLen(Pre(i))
            THEN /\ results[i].k = "ok"
                 /\ results[i].v = Byte(Pre(i), PreIP(i))
                 /\ Post(i).memory = Pre(i).memory
                 /\ RegVal(Post(i), IP) = PreIP(i) + 1
                 /\ SameRegsExcept(Pre(i), Post(i), {IP})
            ELSE /\ results[i].k = "err"
                 /\ results[i].v = PreIP(i)
                 /\ Post(i) = Pre(i)

C2_Witness ==
    /\ \E i \in 1..NCalls :
          results[i].call = "fetch" /\ results[i].k = "ok" /\ results[i].v # 0
    /\ \E i \in 1..NCalls :
          results[i].call = "fetch" /\ results[i].k = "err"

\* C3: step reports halted = true if and only if the byte it fetched at IP is
\* the Hlt tag 0x1C; every other successful step reports halted = false; a
\* fetch error is returned to the caller as a fault (InvalidAddress(IP)),
\* not as a halt, and run returns it.
C3_HaltOnlyOnHlt ==
    /\ \A i \in 1..NCalls :
          IsStep(i) =>
              /\ (Completed(i) /\ results[i].v) <=> (Fetched(i) /\ OpByte(i) = 28)
              /\ ~Fetched(i) => (results[i].k = "err" /\ results[i].v = PreIP(i))
    /\ (NCalls > 0 /\ results[NCalls].k = "err") => status = "returned_err"

C3_Witness ==
    /\ NCalls >= 2
    /\ \E i \in 1..NCalls : Completed(i) /\ ~results[i].v /\ OpByte(i) # 0
    /\ Completed(NCalls) /\ results[NCalls].v /\ OpByte(NCalls) = 28
    /\ status = "returned_ok"

\* C4 as stated: run never returns success while the CPU has not executed Hlt.
C4_Original ==
    status = "returned_ok" =>
        (NCalls > 0 /\ Completed(NCalls) /\ results[NCalls].v)

\* C4 as amended: run invokes step once per line read from standard input; it
\* goes on while steps report not-halted, and it returns success only when
\* the last step reported halted or standard input is exhausted; it returns
\* an error only when the last step faulted.
C4_RunStops ==
    /\ \A i \in 1..(NCalls - 1) : Completed(i) /\ ~results[i].v
    /\ status = "returned_ok" =>
          \/ NCalls > 0 /\ Completed(NCalls) /\ results[NCalls].v
          \/ stdin = 0
    /\ status = "returned_err" => (NCalls > 0 /\ results[NCalls].k = "err")
    /\ status = "running" => (NCalls = 0 \/ (Completed(NCalls) /\ ~results[NCalls].v))

C4_Witness ==
    /\ status = "returned_ok"
    /\ stdin = 0
    /\ NCalls >= 2
    /\ Completed(NCalls) /\ ~results[NCalls].v

\* ---- stack steps, read off the history
IsPshLit(i) == HasArgs(i, 2) /\ OpByte(i) = 23

IsPshReg(i) == HasArgs(i, 1) /\ OpByte(i) = 22

IsPop(i) == HasArgs(i, 1) /\ OpByte(i) = 24

IsCalLit(i) == HasArgs(i, 2) /\ OpByte(i) = 25

IsCalReg(i) == HasArgs(i, 1) /\ OpByte(i) = 26

IsRet(i) == Fetched(i) /\ OpByte(i) = 27

IsPsh(i) == IsPshLit(i) \/ IsPshReg(i)

IsCal(i) == IsCalLit(i) \/ IsCalReg(i)

\* the two bytes a pushing step of kind Psh or Cal is to push
PushedValue(i) ==
    IF IsPshLit(i) THEN <<Arg(i, 1), Arg(i, 2)>>
    ELSE IF IsPshReg(i) THEN RegBytes(RegsAfterFetch(i, 1), Arg(i, 1) % 12)
    ELSE IF IsCalLit(i) THEN to_be_bytes(PreIP(i) + 3)
    ELSE to_be_bytes(PreIP(i) + 2)

PreSP(i) == RegVal(Pre(i), SP)

PostSP(i) == RegVal(Post(i), SP)

PopDest(i) == Arg(i, 1) % 12

\* the address a Pop or Ret step reads from
PopAddr(i) == (PreSP(i) + 2) % U16

\* C5 as stated: after every push, the two bytes mem[SP..SP+2] are the value
\* just pushed (SP is the next byte to pop from).
C5_Original ==
    \A i \in 1..NCalls :
        ((IsPsh(i) \/ IsCal(i)) /\ Completed(i)) =>
            /\ PostSP(i) + 2 <= MemLen(Post(i))
            /\ Word(Post(i), PostSP(i)) = PushedValue(i)

\* C5 as amended: after every push (PshLit, PshReg, or the return-address
\* push of Cal) SP points to the next free slot: SP is 2 below (mod 2^16) the
\* address S it had before, and the value just pushed is at mem[S..S+2],
\* that is at mem[SP+2..SP+4].
C5_PushLeavesValueAboveSP ==
    \A i \in 1..NCalls :
        ((IsPsh(i) \/ IsCal(i)) /\ Completed(i)) =>
            /\ PostSP(i) = (PreSP(i) + U16 - 2) % U16
            /\ PreSP(i) = (PostSP(i) + 2) % U16
            /\ PreSP(i) + 2 <= MemLen(Post(i))
            /\ Word(Post(i), PreSP(i)) = PushedValue(i)

C5_Witness ==
    /\ \E i \in 1..NCalls : IsPshLit(i) /\ Completed(i) /\ PostSP(i) = MemSize - 4
    /\ \E i \in 1..NCalls : IsPshReg(i) /\ Completed(i)
    /\ \E i \in 1..NCalls : IsCal(i) /\ Completed(i) /\ PostSP(i) < MemSize - 4

\* k pushes from step i on, then k pops, all completed, no push with SP < 2
PushesThenPops(i, k) ==
    /\ i + 2 * k - 1 <= NCalls
    /\ \A j \in i..(i + k - 1) : IsPsh(j) /\ Completed(j) /\ PreSP(j) >= 2
    /\ \A j \in (i + k)..(i + 2 * k - 1) : IsPop(j) /\ Completed(j)

Lifo(i, k) ==
    /\ \A j \in 0..(k - 1) :
          RegBytes(Post(i + k + j).registers_memory, PopDest(i + k + j))
              = PushedValue(i + k - 1 - j)
    /\ \A j \in i..(i + k - 1) : PostSP(j) = PreSP(j) - 2
    /\ \A j \in (i + k)..(i + 2 * k - 1) : PostSP(j) = PreSP(j) + 2
    /\ PostSP(i + 2 * k - 1) = PreSP(i)

\* C6 as stated: k values pushed by k consecutive Psh and then popped by k
\* consecutive Pop come back in reverse push order, SP ends where it was,
\* each push lowers SP by exactly 2 and each pop raises it by exactly 2.
C6_Original ==
    \A i \in 1..NCalls : \A k \in 1..NCalls :
        PushesThenPops(i, k) => Lifo(i, k)

\* C6 as amended: the same, for pops whose destination register is not SP.
C6_Lifo ==
    \A i \in 1..NCalls : \A k \in 1..NCalls :
        (PushesThenPops(i, k)
           /\ \A j \in (i + k)..(i + 2 * k - 1) : PopDest(j) # SP)
        => Lifo(i, k)

C6_Witness ==
    \E i \in 1..NCalls :
        /\ PushesThenPops(i, 2)
        /\ \A j \in (i + 2)..(i + 3) : PopDest(j) # SP
        /\ PushedValue(i) # PushedValue(i + 1)

\* a Psh at step i immediately followed by a Pop, both completed
PshPop(i) ==
    /\ i + 1 <= NCalls
    /\ IsPsh(i) /\ Completed(i)
    /\ IsPop(i + 1) /\ Completed(i + 1)

\* C7 as stated: after a Psh immediately followed by a Pop, every memory byte
\* at an address above the final SP has the value it had before the Psh.
C7_Original ==
    \A i \in 1..NCalls :
        PshPop(i) =>
            \A a \in 0..(MemLen(Pre(i)) - 1) :
                a > PostSP(i + 1) => Byte(Post(i + 1), a) = Byte(Pre(i), a)

\* C7 as amended: with S the value of SP before the Psh, after the pair
\* every memory byte other than the two at S and S+1 has the value it had
\* before the Psh, and those two hold the pushed value; when the Pop's
\* destination is not SP the final SP is S, so every byte at an address
\* >= final SP + 2 is unchanged.
C7_PshPopFrame ==
    \A i \in 1..NCalls :
        PshPop(i) =>
            /\ \A a \in 0..(MemLen(Pre(i)) - 1) :
                  a \notin {PreSP(i), PreSP(i) + 1}
                      => Byte(Post(i + 1), a) = Byte(Pre(i), a)
            /\ Word(Post(i + 1), PreSP(i)) = PushedValue(i)
            /\ PopDest(i + 1) # SP =>
                  /\ PostSP(i + 1) = PreSP(i)
                  /\ \A a \in 0..(MemLen(Pre(i)) - 1) :
                        a >= PostSP(i + 1) + 2
                            => Byte(Post(i + 1), a) = Byte(Pre(i), a)

C7_Witness ==
    \E i \in 1..NCalls :
        /\ PshPop(i)
        /\ PopDest(i + 1) # SP
        /\ Word(Pre(i), PreSP(i)) # PushedValue(i)
        /\ PostSP(i + 1) = MemSize - 2

\* a Cal at step i and a Ret at step j > i, every step from i to j completed,
\* the callee balanced: at the Ret SP is what the Cal left and the slot the
\* Cal wrote still holds what it wrote
CalRet(i, j) ==
    /\ i < j /\ j <= NCalls
    /\ IsCal(i) /\ IsRet(j)
    /\ \A n \in i..j : Completed(n)
    /\ PreSP(i) >= 2
    /\ PreSP(j) = PostSP(i)
    /\ Word(Pre(j), PreSP(i)) = Word(Post(i), PreSP(i))

\* C8: for a Cal whose callee leaves the stack balanced and then executes
\* Ret, after that Ret IP is the address of the byte after the call
\* instruction's operands and SP is what it was before the Cal.
C8_CalRet ==
    \A i \in 1..NCalls : \A j \in 1..NCalls :
        CalRet(i, j) =>
            /\ RegVal(Post(j), IP) = PreIP(i) + (IF IsCalLit(i) THEN 3 ELSE 2)
            /\ PostSP(j) = PreSP(i)

C8_Witness ==
    \E i \in 1..NCalls : \E j \in 1..NCalls :
        /\ CalRet(i, j)
        /\ j > i + 2
        /\ \E n \in (i + 1)..(j - 1) : IsPsh(n)
        /\ RegVal(Post(j), IP) # RegVal(Pre(j), IP) + 1

C8_WitnessCalReg ==
    \E i \in 1..NCalls : \E j \in 1..NCalls :
        CalRet(i, j) /\ IsCalReg(i) /\ PreIP(i) > 0

\* ---- register operands
IsMovLitReg(i) == HasArgs(i, 3) /\ OpByte(i) = 16

IsMovRegReg(i) == HasArgs(i, 2) /\ OpByte(i) = 17

\* regs with register r (0..11) set to the two bytes w
WithReg(regs, r, w) == [regs EXCEPT ![2 * r + 1] = w[1], ![2 * r + 2] = w[2]]

\* C9: for every byte value b (0..255) that appears as a register operand,
\* the instruction acts on the register with index b mod 12, every access to
\* the 24-byte register file stays inside it, and the step does not fault
\* because of b.  Stated for MovLitReg and MovRegReg (which then always
\* complete), and for PshReg and Pop (which fail only for the stack's sake).
C9_RegisterIndexModulo ==
    \A i \in 1..NCalls :
        /\ Len(Post(i).registers_memory) = 24
        /\ IsMovLitReg(i) =>
              /\ Completed(i)
              /\ Post(i).memory = Pre(i).memory
              /\ Post(i).registers_memory =
                    WithReg(RegsAfterFetch(i, 3), Arg(i, 3) % 12, <<Arg(i, 1), Arg(i, 2)>>)
        /\ IsMovRegReg(i) =>
              /\ Completed(i)
              /\ Post(i).memory = Pre(i).memory
              /\ Post(i).registers_memory =
                    WithReg(RegsAfterFetch(i, 2), Arg(i, 2) % 12,
                            RegBytes(RegsAfterFetch(i, 2), Arg(i, 1) % 12))
        /\ IsPshReg(i) =>
              /\ results[i].k \in {"ok", "panic"}
              /\ results[i].k = "panic" => (PreSP(i) + 2 > MemLen(Pre(i)) \/ PreSP(i) < 2)
              /\ Completed(i) =>
                    Word(Post(i), PreSP(i)) = RegBytes(RegsAfterFetch(i, 1), Arg(i, 1) % 12)
        /\ IsPop(i) =>
              /\ results[i].k \in {"ok", "panic"}
              /\ results[i].k = "panic" =>
                    (PreSP(i) + 2 >= U16 \/ PopAddr(i) + 2 > MemLen(Pre(i)))
              /\ Completed(i) =>
                    Post(i).registers_memory =
                        WithReg(WithReg(RegsAfterFetch(i, 1), SP, to_be_bytes(PopAddr(i))),
                                Arg(i, 1) % 12, Word(Pre(i), PopAddr(i)))

C9_Witness ==
    /\ NCalls = 2
    /\ IsMovLitReg(1) /\ Arg(1, 3) = 255 /\ RegVal(Post(1), 255 % 12) = 258
    /\ IsMovRegReg(2) /\ Arg(2, 1) = 255 /\ RegVal(Post(2), R2) = 258

C9_WitnessPop ==
    /\ NCalls = 2
    /\ IsPop(2) /\ Completed(2) /\ Arg(2, 1) = 200 /\ RegVal(cpu, 200 % 12) = 258

\* ---- conditional jump
IsJmpNELit(i) == HasArgs(i, 4) /\ OpByte(i) = 21

\* the effect of a JmpNELit step that takes the address from operand bytes
\* a..a+1 and the comparison value from operand bytes v..v+1
JmpNEEffect(i, a, v) ==
    /\ Completed(i) /\ ~results[i].v
    /\ Post(i).memory = Pre(i).memory
    /\ SameRegsExcept(Pre(i), Post(i), {IP})
    /\ RegVal(Post(i), IP) =
          IF RegVal(Pre(i), ACC) # to_u16(<<Arg(i, v), Arg(i, v + 1)>>)
          THEN to_u16(<<Arg(i, a), Arg(i, a + 1)>>)
          ELSE PreIP(i) + 5

\* C10 as stated: JmpNELit reads the address first, then the comparison value.
C10_Original ==
    \A i \in 1..NCalls : IsJmpNELit(i) => JmpNEEffect(i, 1, 3)

\* C10 as amended: JmpNELit reads its operands comparison value first, then
\* address: with operand bytes V(2) then A(2), the step sets IP := A when
\* ACC != V and otherwise leaves IP at the byte after the 5-byte instruction;
\* no other register and no memory byte changes.
C10_JmpNEValueThenAddress ==
    \A i \in 1..NCalls : IsJmpNELit(i) => JmpNEEffect(i, 3, 1)

C10_Witness ==
    /\ \E i \in 1..NCalls :
          IsJmpNELit(i) /\ RegVal(Post(i), IP) = PreIP(i) + 5
    /\ \E i \in 1..NCalls :
          IsJmpNELit(i) /\ RegVal(Post(i), IP) # PreIP(i) + 5

\* ---- the loop program
\* the image is the loop with the jump bytes jmp and a zeroed data area
IsLoop(jmp) == image = LoopImage(jmp, 0)

\* each of the first four iterations starts at IP = 0, and after 20 steps
\* R1 = 0x30, ACC = 0x40 and mem[0x0100..0x0102] = 00 40
LoopOutcome ==
    /\ \A k \in 0..3 : NCalls >= 5 * k => RegVal(trace[5 * k + 1], IP) = 0
    /\ NCalls >= 20 =>
          /\ \A n \in 1..20 : Completed(n) /\ ~results[n].v
          /\ RegVal(trace[21], R1) = 48
          /\ RegVal(trace[21], ACC) = 64
          /\ Word(trace[21], 256) = <<0, 64>>

\* C11 as stated: the loop whose jump is "JmpNELit addr = 0x0000, val = 0x0030"
\* (in either operand order) runs four iterations from IP = 0 and leaves
\* R1 = 0x30, ACC = 0x40, mem[0x0100..0x0102] = 00 40 after 20 steps.
C11_Original ==
    (IsLoop(JmpNELit(0, 48, 0, 0)) \/ IsLoop(JmpNELit(0, 0, 0, 48))) => LoopOutcome

\* C11 as amended: the loop of the test, whose jump has comparison value
\* 0x0003 and address 0x0000 (operand bytes 00 03 00 00), run from a zeroed
\* data area: each of the first four iterations starts at IP = 0, and after
\* four iterations (20 steps) R1 = 0x30, ACC = 0x40 and
\* mem[0x0100..0x0102] = 00 40.  With comparison value 0x0030 the jump is
\* not taken at the end of the third iteration (ACC = 0x30) and step 16
\* starts at IP = 20.
C11_LoopFourIterations ==
    /\ IsLoop(JmpNELit(0, 3, 0, 0)) => LoopOutcome
    /\ (IsLoop(JmpNELit(0, 48, 0, 0)) /\ NCalls >= 15) =>
          /\ \A k \in 0..2 : RegVal(trace[5 * k + 1], IP) = 0
          /\ RegVal(trace[16], ACC) = 48
          /\ RegVal(trace[16], IP) = 20

C11_Witness ==
    /\ IsLoop(JmpNELit(0, 3, 0, 0))
    /\ NCalls = 20
    /\ RegVal(cpu, ACC) = 64
    /\ Word(cpu, 256) = <<0, 64>>

\* ---- instruction pointer
\* the number of operand bytes the arm of execute for opcode byte b fetches
\* (none for Ret, Hlt, Nop and the bytes that decode to Nop)
OperandBytes(b) ==
    CASE b \in {16, 18, 19} -> 3
      [] b \in {17, 20, 23, 25} -> 2
      [] b \in {22, 24, 26} -> 1
      [] b = 21 -> 4
      [] OTHER -> 0

\* opcode bytes whose arm may write IP other than by fetching
TransferBytes == {21, 25, 26, 27}

\* the register operand that is the destination of the instruction of step i
\* is IP
DestIsIP(i) ==
    \/ OpByte(i) \in {16, 19} /\ Arg(i, 3) % 12 = IP
    \/ OpByte(i) = 17 /\ Arg(i, 2) % 12 = IP
    \/ OpByte(i) = 24 /\ Arg(i, 1) % 12 = IP

\* the address a completed control transfer of step i goes to
Target(i) ==
    CASE OpByte(i) = 21 -> to_u16(<<Arg(i, 3), Arg(i, 4)>>)
      [] OpByte(i) = 25 -> to_u16(<<Arg(i, 1), Arg(i, 2)>>)
      [] OpByte(i) = 26 -> to_u16(RegBytes(RegsAfterFetch(i, 1), Arg(i, 1) % 12))
      [] OpByte(i) = 27 -> to_u16(Word(Pre(i), PopAddr(i)))

JmpNETaken(i) == RegVal(Pre(i), ACC) # to_u16(<<Arg(i, 1), Arg(i, 2)>>)

\* C12: within one step IP only increases, by 1 per fetched byte, from the
\* opcode byte to the last operand byte: a step that faults stops with IP at
\* the address it could not fetch, at most 1 + operand count above where it
\* started, and an instruction that reads IP in mid-step (Cal's return
\* address, MovRegMem IP, PshReg IP) sees the address after its operands.
\* A completed instruction that does not transfer control and does not name
\* IP as destination leaves IP advanced by exactly 1 + its operand byte
\* count; after a taken jump, a Cal or a Ret, IP equals the target address.
C12_InstructionPointer ==
    \A i \in 1..NCalls :
        IsStep(i) =>
            /\ results[i].k = "err" =>
                  /\ results[i].v = RegVal(Post(i), IP)
                  /\ ~Fetched(i) => Post(i) = Pre(i)
                  /\ Fetched(i) =>
                        /\ results[i].v = MemLen(Pre(i))
                        /\ PreIP(i) < results[i].v
                        /\ results[i].v <= PreIP(i) + OperandBytes(OpByte(i))
            /\ (Completed(i) /\ (OpByte(i) \notin TransferBytes) /\ ~DestIsIP(i)) =>
                  RegVal(Post(i), IP) = PreIP(i) + 1 + OperandBytes(OpByte(i))
            /\ (Completed(i) /\ OpByte(i) = 21 /\ ~JmpNETaken(i)) =>
                  RegVal(Post(i), IP) = PreIP(i) + 5
            /\ (Completed(i) /\ (OpByte(i) \in {25, 26, 27} \/ (OpByte(i) = 21 /\ JmpNETaken(i)))) =>
                  RegVal(Post(i), IP) = Target(i)
            /\ (Completed(i) /\ OpByte(i) \in {25, 26}) =>
                  Word(Post(i), PreSP(i)) = to_be_bytes(PreIP(i) + 1 + OperandBytes(OpByte(i)))
            /\ (Completed(i) /\ OpByte(i) = 18 /\ Arg(i, 1) % 12 = IP) =>
                  Word(Post(i), to_u16(<<Arg(i, 2), Arg(i, 3)>>)) = to_be_bytes(PreIP(i) + 4)
            /\ (Completed(i) /\ OpByte(i) = 22 /\ Arg(i, 1) % 12 = IP) =>
                  Word(Post(i), PreSP(i)) = to_be_bytes(PreIP(i) + 2)

C12_Witness ==
    /\ NCalls >= 2
    /\ \E i \in 1..NCalls :
          Completed(i) /\ OpByte(i) = 21 /\ JmpNETaken(i) /\ RegVal(Post(i), IP) = 9
    /\ \E i \in 1..NCalls :
          Completed(i) /\ OpByte(i) = 16 /\ ~DestIsIP(i) /\ RegVal(Post(i), IP) = PreIP(i) + 4

C12_WitnessCalRet ==
    /\ \E i \in 1..NCalls : Completed(i) /\ OpByte(i) = 25 /\ RegVal(Post(i), IP) = 3
    /\ \E i \in 1..NCalls : Completed(i) /\ OpByte(i) = 27 /\ RegVal(Post(i), IP) # PreIP(i) + 1

C12_WitnessFault ==
    \E i \in 1..NCalls : results[i].k = "err" /\ Fetched(i) /\ results[i].v > PreIP(i)

\* ---- arithmetic
IsAddRegReg(i) == HasArgs(i, 2) /\ OpByte(i) = 20

\* the sum of the two operand registers of the AddRegReg of step i, as read
\* once the operand bytes are fetched
AddSum(i) ==
    to_u16(RegBytes(RegsAfterFetch(i, 2), Arg(i, 1) % 12))
        + to_u16(RegBytes(RegsAfterFetch(i, 2), Arg(i, 2) % 12))

AddEffect(i) ==
    /\ Completed(i) /\ ~results[i].v
    /\ Post(i).memory = Pre(i).memory
    /\ Post(i).registers_memory =
          WithReg(RegsAfterFetch(i, 2), ACC, to_be_bytes(AddSum(i) % U16))

\* C13: AddRegReg Ra,Rb sets ACC to (regs[Ra] + regs[Rb]) mod 2^16 for all
\* 16-bit register values, including sums of 65536 or more, and changes no
\* register other than ACC and IP and no memory byte.
C13_AddWraps == \A i \in 1..NCalls : IsAddRegReg(i) => AddEffect(i)

\* what the code does: the sum is ACC when it is below 65536; a larger sum
\* wraps in a build without overflow checks and panics in a build with them
C13_AddWrapsUnlessChecked ==
    \A i \in 1..NCalls :
        IsAddRegReg(i) =>
            IF AddSum(i) >= U16 /\ overflow_checks
            THEN results[i].k = "panic" /\ RegVal(Post(i), ACC) = RegVal(Pre(i), ACC)
            ELSE AddEffect(i)

C13_Witness ==
    \E i \in 1..NCalls :
        IsAddRegReg(i) /\ Completed(i) /\ AddSum(i) >= U16 /\ RegVal(Post(i), ACC) = 65534

\* ---- memory moves
IsMovRegMem(i) == HasArgs(i, 3) /\ OpByte(i) = 18

IsMovMemReg(i) == HasArgs(i, 3) /\ OpByte(i) = 19

\* the address operand and the register operand of a MovRegMem step
StoreAddr(i) == to_u16(<<Arg(i, 2), Arg(i, 3)>>)

StoreReg(i) == Arg(i, 1) % 12

\* the address operand and the register operand of a MovMemReg step
LoadAddr(i) == to_u16(<<Arg(i, 1), Arg(i, 2)>>)

LoadReg(i) == Arg(i, 3) % 12

InRange(c, a) == a + 2 <= MemLen(c)

\* the two bytes register r holds once the operands of step i are fetched
StoredValue(i) == RegBytes(RegsAfterFetch(i, 3), StoreReg(i))

\* memory m with the two bytes at address a replaced by w
WithWord(m, a, w) ==
    [k \in 1..Len(m) |-> IF k = a + 1 THEN w[1] ELSE IF k = a + 2 THEN w[2] ELSE m[k]]

\* step i + 1 is a MovMemReg from the address step i stored to
LoadFollows(i) ==
    /\ i + 1 <= NCalls
    /\ IsMovMemReg(i + 1)
    /\ LoadAddr(i + 1) = StoreAddr(i)

\* C14 as stated: MovRegMem R,A stores regs[R] big-endian at mem[A], mem[A+1]
\* and changes no other memory byte and no register except IP; a following
\* MovMemReg A,R' then yields regs[R'] = regs[R], for every in-range A.
\* (regs[R] read as generously as the words allow: in the store, the value
\* before or after the step; in the round trip, the value R had before the
\* store or has after the load.)
C14_Original ==
    \A i \in 1..NCalls :
        (IsMovRegMem(i) /\ InRange(Pre(i), StoreAddr(i))) =>
            /\ Completed(i)
            /\ SameRegsExcept(Pre(i), Post(i), {IP})
            /\ \/ Post(i).memory = WithWord(Pre(i).memory, StoreAddr(i),
                                             RegBytes(Pre(i).registers_memory, StoreReg(i)))
               \/ Post(i).memory = WithWord(Pre(i).memory, StoreAddr(i),
                                             RegBytes(Post(i).registers_memory, StoreReg(i)))
            /\ LoadFollows(i) =>
                  /\ Completed(i + 1)
                  /\ \/ RegVal(Post(i + 1), LoadReg(i + 1)) = RegVal(Pre(i), StoreReg(i))
                     \/ RegVal(Post(i + 1), LoadReg(i + 1)) = RegVal(Post(i + 1), StoreReg(i))

\* C14 as amended: MovRegMem R,A stores the value R holds once the
\* instruction's operand bytes are fetched (regs[R] for R other than IP; for
\* R = IP the address of the next instruction) big-endian at mem[A] (high
\* byte) and mem[A+1] (low byte) and changes no other memory byte and no
\* register except IP; a following MovMemReg A,R' then yields regs[R'] = the
\* value stored, which is regs[R] when R is not IP, for every in-range A.
C14_StoreLoadRoundTrip ==
    \A i \in 1..NCalls :
        (IsMovRegMem(i) /\ InRange(Pre(i), StoreAddr(i))) =>
            /\ Completed(i) /\ ~results[i].v
            /\ Post(i).registers_memory = RegsAfterFetch(i, 3)
            /\ Post(i).memory = WithWord(Pre(i).memory, StoreAddr(i), StoredValue(i))
            /\ Byte(Post(i), StoreAddr(i)) = to_u16(StoredValue(i)) \div 256
            /\ Byte(Post(i), StoreAddr(i) + 1) = to_u16(StoredValue(i)) % 256
            /\ StoreReg(i) # IP => to_u16(StoredValue(i)) = RegVal(Pre(i), StoreReg(i))
            /\ StoreReg(i) = IP => to_u16(StoredValue(i)) = PreIP(i) + 4
            /\ LoadFollows(i) =>
                  /\ Completed(i + 1)
                  /\ Post(i + 1).memory = Post(i).memory
                  /\ RegBytes(Post(i + 1).registers_memory, LoadReg(i + 1)) = StoredValue(i)
                  /\ StoreReg(i) # IP =>
                        RegVal(Post(i + 1), LoadReg(i + 1)) = RegVal(Pre(i), StoreReg(i))

C14_Witness ==
    \E i \in 1..NCalls :
        /\ IsMovRegMem(i) /\ StoreAddr(i) = MemSize - 2 /\ StoreReg(i) = R1
        /\ LoadFollows(i)
        /\ LoadReg(i + 1) = R2
        /\ RegVal(Post(i + 1), R2) = 4660
        /\ Word(Pre(i), StoreAddr(i)) # Word(Post(i), StoreAddr(i))

C14_WitnessIP ==
    \E i \in 1..NCalls :
        IsMovRegMem(i) /\ StoreReg(i) = IP /\ LoadFollows(i) /\ Completed(i + 1)

\* C15: when an instruction's operand address lies outside memory (MovRegMem
\* or MovMemReg with A + 2 > memsize), the step returns the error
\* InvalidAddress to its caller instead of completing or aborting the CPU.
C15_OperandAddressFault ==
    \A i \in 1..NCalls :
        \/ IsMovRegMem(i) /\ ~InRange(Pre(i), StoreAddr(i))
        \/ IsMovMemReg(i) /\ ~InRange(Pre(i), LoadAddr(i))
        => results[i].k = "err"

\* what the code does there: the step panics (set_buf indexes the slice out
\* of range, get_buf's None is unwrapped) with the operands already fetched
C15_OperandAddressPanics ==
    \A i \in 1..NCalls :
        \/ IsMovRegMem(i) /\ ~InRange(Pre(i), StoreAddr(i))
        \/ IsMovMemReg(i) /\ ~InRange(Pre(i), LoadAddr(i))
        => /\ results[i].k = "panic"
           /\ status = "panicked"
           /\ Post(i).memory = Pre(i).memory
           /\ Post(i).registers_memory = RegsAfterFetch(i, 3)

\* ---- unconditional jump
IsJmp(i) == HasArgs(i, 2) /\ OpByte(i) = 62

\* C16: executing the Jmp opcode (tag 0x3E) with 2-byte operand A sets
\* IP := A unconditionally and changes no other register and no memory byte.
C16_Jmp ==
    \A i \in 1..NCalls :
        IsJmp(i) =>
            /\ Completed(i)
            /\ RegVal(Post(i), IP) = to_u16(<<Arg(i, 1), Arg(i, 2)>>)
            /\ SameRegsExcept(Pre(i), Post(i), {IP})
            /\ Post(i).memory = Pre(i).memory

\* what the code does there: the byte decodes to Jmp, for which execute has
\* no arm; the step never completes and IP stays after the opcode byte
C16_JmpHasNoArm ==
    \A i \in 1..NCalls :
        IsJmp(i) =>
            /\ results[i].k = "noarm"
            /\ RegVal(Post(i), IP) = PreIP(i) + 1

\* ---- opcode table
NConv == Len(results)

\* C17: the opcode-to-byte mapping round-trips: for every opcode variant op,
\* decoding the byte op encodes to gives op back, and therefore no two
\* opcodes share a tag byte (two opcodes with one tag could not both come
\* back from it).
C17_OpcodeRoundTrip ==
    \A i \in 1..NConv : \A j \in 1..NConv :
        (results[i].call = "encode" /\ results[i].v.byte = results[j].v.byte) =>
            /\ results[j].v.op = results[i].v.op
            /\ results[i].v.byte \in 0..255

C17_Witness ==
    /\ NConv = 2
    /\ results[1] = [call |-> "encode", k |-> "ok", v |-> [op |-> "Jmp", byte |-> 62]]
    /\ results[2] = [call |-> "decode", k |-> "ok", v |-> [op |-> "Jmp", byte |-> 62]]

\* ---- Nop
\* the tag bytes of the opcodes other than Nop
AssignedTags == {Encode(op) : op \in OpCode \ {"Nop"}}

\* C18: every byte value that is not an assigned opcode tag decodes to Nop,
\* and a step whose fetched byte is such a value (or 0x00) reports
\* not-halted, advances IP by exactly 1, and leaves memory and every other
\* register unchanged.
C18_UnassignedIsNop ==
    /\ \A b \in 0..255 : b \notin AssignedTags => Decode(b) = "Nop"
    /\ \A i \in 1..NCalls :
          (Fetched(i) /\ OpByte(i) \notin AssignedTags) =>
              /\ Completed(i) /\ ~results[i].v
              /\ RegVal(Post(i), IP) = PreIP(i) + 1
              /\ SameRegsExcept(Pre(i), Post(i), {IP})
              /\ Post(i).memory = Pre(i).memory

C18_Witness ==
    /\ NCalls >= 2
    /\ OpByte(1) = 255 /\ Completed(1) /\ RegVal(Post(1), IP) = 1
    /\ \E i \in 1..NCalls : Fetched(i) /\ OpByte(i) = 0 /\ Completed(i)

C18_WitnessGap ==
    NCalls >= 1 /\ OpByte(1) = 31 /\ Completed(1) /\ RegVal(Post(1), IP) = 1

\* ---- the assembler
Assembled == results # <<>> /\ results[1].call = "assemble"

AsmInput == results[1].v.input

\* the state after the linear pass, and the state assemble ended in
AsmPass == results[1].v.pass

AsmOut == results[1].v.out

\* the assembler's state after the linear pass over the first i nodes
AfterNodes(i) == LinearPass(AssemblerNew, SubSeq(AsmInput, 1, i), 1)

\* the bytes of node i are those from NodeStart(i) up to NodeEnd(i) - 1
NodeStart(i) == AfterNodes(i - 1).counter

NodeEnd(i) == AfterNodes(i).counter

\* node i has a label operand: it appended an entry to need_patching
HasSlot(i) == Len(AfterNodes(i).need_patching) > Len(AfterNodes(i - 1).need_patching)

\* the offset that entry records
Slot(i) == AfterNodes(i).need_patching[Len(AfterNodes(i).need_patching)][2]

\* the label that entry names
SlotLabel(i) == AfterNodes(i).need_patching[Len(AfterNodes(i).need_patching)][1]

IsNode(i, node) == AsmInput[i].node = node

\* C19: for every instruction with a Label operand the assembler reserves
\* exactly 2 bytes for the address and advances the cursor by 2, so the two
\* bytes the patching pass overwrites are bytes of that instruction and of
\* no other; in 'Jmp end; Nop; end: Hlt' the Nop byte survives patching and
\* 'end' is the address of Hlt.
C19_LabelOperandReservesTwo ==
    (Assembled /\ AsmPass.k = "ok") =>
        /\ \A i \in 1..Len(AsmInput) :
              HasSlot(i) => (NodeStart(i) < Slot(i) /\ Slot(i) + 2 <= NodeEnd(i))
        /\ AsmInput = <<ASTNode("Jmp", <<Label("end")>>), ASTNode("Nop", <<>>),
                        LabelNode("end"), ASTNode("Hlt", <<>>)>> =>
              /\ AsmOut.k = "ok"
              /\ ImageByte(AsmOut.memory, NodeStart(2)) = Encode("Nop")
              /\ ImageByte(AsmOut.memory, AsmOut.label_addrs["end"]) = Encode("Hlt")

\* what the code does: Jmp, Cal and Mov advance the cursor by 1 over a label
\* operand, so the second byte of the slot is the first byte of what follows;
\* the slot of a conditional jump is where its literal or register was pushed
C19_LabelOperandReservesOne ==
    (Assembled /\ AsmPass.k = "ok") =>
        \A i \in 1..Len(AsmInput) :
            HasSlot(i) =>
                /\ (IsNode(i, "Jmp") \/ IsNode(i, "Cal")) =>
                      (Slot(i) = NodeStart(i) + 1 /\ NodeEnd(i) = Slot(i) + 1)
                /\ (IsNode(i, "Mov") /\ AsmInput[i].args[1].t = "Reg") =>
                      (Slot(i) = NodeStart(i) + 2 /\ NodeEnd(i) = Slot(i) + 1)
                /\ (IsNode(i, "Mov") /\ AsmInput[i].args[1].t = "Mem") =>
                      (Slot(i) = NodeStart(i) + 1 /\ NodeEnd(i) = Slot(i) + 2)
                /\ (IsNode(i, "Jne") \/ IsNode(i, "Jeq")) =>
                      (Slot(i) = NodeEnd(i) - 2 /\ Slot(i) >= NodeStart(i) + 1)

\* the last Label node of the program that defines name is node i
LastDefinition(name, i) ==
    /\ i \in 1..Len(AsmInput)
    /\ AsmInput[i] = LabelNode(name)
    /\ \A j \in (i + 1)..Len(AsmInput) : AsmInput[j] # LabelNode(name)

\* C20: for any program in which every referenced label is defined, in the
\* image assemble returns each label-reference slot (each entry of
\* need_patching) holds, big-endian, the address recorded for that label
\* (the cursor at its Label node), whether the label is defined before or
\* after the referencing instruction.
C20_SlotsHoldLabelAddress ==
    (Assembled /\ AsmPass.k = "ok"
        /\ \A j \in 1..Len(AsmPass.need_patching) :
              AsmPass.need_patching[j][1] \in DOMAIN AsmPass.label_addrs) =>
        /\ AsmOut.k = "ok"
        /\ \A i \in 1..Len(AsmInput) :
              HasSlot(i) =>
                  \E d \in 1..Len(AsmInput) :
                      /\ LastDefinition(SlotLabel(i), d)
                      /\ ImageByte(AsmOut.memory, Slot(i)) = NodeStart(d) \div 256
                      /\ ImageByte(AsmOut.memory, Slot(i) + 1) = NodeStart(d) % 256

C20_Witness ==
    /\ Assembled
    /\ AsmInput = <<ASTNode("Jmp", <<Label("a")>>), LabelNode("a"),
                    ASTNode("Jmp", <<Label("a")>>)>>
    /\ AsmOut.k = "ok"
    /\ AsmOut.memory = <<62, 0, 2, 0, 2>>

\* ---------------------------------------------------- the form-selection table
\* the shape of an operand: L, R, Lb, M(L), M(R), M(Lb), or another one
Shape(a) ==
    CASE a.t = "Lit" -> "L"
      [] a.t = "Reg" -> "R"
      [] a.t = "Label" -> "Lb"
      [] a.t = "Mem" -> (CASE a.arg.t = "Lit" -> "M(L)"
                           [] a.arg.t = "Reg" -> "M(R)"
                           [] a.arg.t = "Label" -> "M(Lb)"
                           [] OTHER -> "M(other)")
      [] OTHER -> "Offset"

Shapes(n) == [j \in DOMAIN n.args |-> Shape(n.args[j])]

CondJumps == {"Jne", "Jeq", "Jlt", "Jgt", "Jle", "Jge"}

\* the operand patterns the table of instruction forms permits for a node
PermittedShapes(node) ==
    CASE node = "Mov" -> {<<"L", "R">>, <<"R", "R">>, <<"R", "M(Lb)">>, <<"R", "M(L)">>,
                          <<"R", "M(R)">>, <<"M(Lb)", "R">>, <<"M(L)", "R">>}
      [] node \in {"Add", "Mul"} -> {<<"R", "R">>, <<"L", "R">>}
      [] node = "Sub" -> {<<"R", "R">>, <<"R", "L">>, <<"L", "R">>}
      [] node \in {"Shl", "Shr", "And", "Or", "Xor"} -> {<<"R", "R">>, <<"R", "L">>}
      [] node \in CondJumps -> {<<"Lb", "L">>, <<"Lb", "R">>}
      [] node \in {"Not", "Pop", "Inc", "Dec"} -> {<<"R">>}
      [] node = "Jmp" -> {<<"Lb">>}
      [] node = "Psh" -> {<<"L">>, <<"R">>}
      [] node = "Cal" -> {<<"L">>, <<"R">>, <<"Lb">>}
      [] node = "Sys" -> {<<"L">>}
      [] node \in {"Ret", "Hlt", "Nop"} -> {<<>>}

Permitted(n) == n.node = "Label" \/ Shapes(n) \in PermittedShapes(n.node)

\* the label a node refers to, as a sequence of at most one name
NodeRef(n) ==
    CASE n.node = "Label" -> <<>>
      [] Shapes(n) # <<>> /\ Shapes(n)[1] = "Lb" -> <<n.args[1].name>>
      [] Shapes(n) # <<>> /\ Shapes(n)[1] = "M(Lb)" -> <<n.args[1].arg.name>>
      [] Len(Shapes(n)) = 2 /\ Shapes(n)[2] = "M(Lb)" -> <<n.args[2].arg.name>>
      [] OTHER -> <<>>

\* the program has a Label node for name
Defined(name) == \E i \in 1..Len(AsmInput) : AsmInput[i] = LabelNode(name)

\* node i refers to a label the program does not define
Undefined(i) == NodeRef(AsmInput[i]) # <<>> /\ ~Defined(NodeRef(AsmInput[i])[1])

AllPermitted == \A i \in 1..Len(AsmInput) : Permitted(AsmInput[i])

ReturnsInvalidLabel == AsmOut.k = "err" /\ AsmOut.e.error = "InvalidLabel"

\* C21: for a program whose operands are all permitted, assemble returns
\* InvalidLabel(name) if and only if some instruction references a label for
\* which the program has no Label node; the name reported is that of the first
\* such reference in program order, and no image is returned.
C21_InvalidLabel ==
    (Assembled /\ AllPermitted) =>
        /\ ReturnsInvalidLabel <=> (\E i \in 1..Len(AsmInput) : Undefined(i))
        /\ \A i \in 1..Len(AsmInput) :
              (Undefined(i) /\ \A j \in 1..(i - 1) : ~Undefined(j)) =>
                  /\ ReturnsInvalidLabel
                  /\ AsmOut.e.label = NodeRef(AsmInput[i])[1]
        /\ (~ReturnsInvalidLabel) => AsmOut.k = "ok"

\* a reference to a defined label, then one to an undefined label
C21_Witness ==
    /\ Assembled
    /\ AsmInput = <<ASTNode("Jmp", <<Label("a")>>), ASTNode("Jmp", <<Label("end")>>),
                    LabelNode("a")>>
    /\ ReturnsInvalidLabel
    /\ AsmOut.e.label = "end"

\* two undefined labels: the first reference is the one reported
C21_WitnessFirst ==
    /\ Assembled
    /\ AsmInput = <<ASTNode("Cal", <<Label("end")>>), ASTNode("Jmp", <<Label("a")>>)>>
    /\ ReturnsInvalidLabel
    /\ AsmOut.e.label = "end"

\* the width of an operand: 1 byte for a register (also behind a pointer),
\* 2 bytes for a literal, an address or a label
OperandWidth(shape) == IF shape \in {"R", "M(R)"} THEN 1 ELSE 2

RECURSIVE SumWidths(_, _)
SumWidths(shapes, j) ==
    IF j > Len(shapes) THEN 0 ELSE OperandWidth(shapes[j]) + SumWidths(shapes, j + 1)

\* the encoded size of a node: nothing for a label, the tag and the operands
\* for an instruction
EncodedSize(n) == IF n.node = "Label" THEN 0 ELSE 1 + SumWidths(Shapes(n), 1)

\* the sum of the encoded sizes of the first i nodes of the program
RECURSIVE SizeOfFirst(_)
SizeOfFirst(i) == IF i = 0 THEN 0 ELSE SizeOfFirst(i - 1) + EncodedSize(AsmInput[i])

\* the bytes the linear pass moves the cursor by: a label operand of Jmp, Cal
\* or Mov takes 1 byte, a conditional jump takes the tag, 1 skipped byte and
\* its literal or register
CursorAdvance(n) ==
    CASE n.node = "Label" -> 0
      [] n.node \in CondJumps -> 2 + OperandWidth(Shapes(n)[2])
      [] NodeRef(n) # <<>> -> EncodedSize(n) - 1
      [] OTHER -> EncodedSize(n)

RECURSIVE AdvanceOfFirst(_)
AdvanceOfFirst(i) == IF i = 0 THEN 0 ELSE AdvanceOfFirst(i - 1) + CursorAdvance(AsmInput[i])

\* C22: after the linear pass over an accepted program the write cursor
\* equals the sum of the per-instruction encoded sizes (1 tag byte, 1 byte
\* per register operand, 2 bytes per literal, address or label operand); a
\* Label node emits nothing and records as its address the sum of the encoded
\* sizes of the instructions before it.
C22_CursorIsSumOfSizes ==
    (Assembled /\ AsmPass.k = "ok") =>
        /\ AsmPass.counter = SizeOfFirst(Len(AsmInput))
        /\ \A i \in 1..Len(AsmInput) :
              IsNode(i, "Label") =>
                  /\ NodeEnd(i) = NodeStart(i)
                  /\ AfterNodes(i).memory = AfterNodes(i - 1).memory
                  /\ AfterNodes(i).label_addrs[AsmInput[i].name] = SizeOfFirst(i - 1)

\* what the code does: the cursor and the label addresses are sums of the
\* code's own advances, which are smaller for every label operand
C22_CursorIsSumOfAdvances ==
    (Assembled /\ AsmPass.k = "ok") =>
        /\ AsmPass.counter = AdvanceOfFirst(Len(AsmInput))
        /\ \A i \in 1..Len(AsmInput) :
              IsNode(i, "Label") =>
                  /\ NodeEnd(i) = NodeStart(i)
                  /\ AfterNodes(i).memory = AfterNodes(i - 1).memory
                  /\ AfterNodes(i).label_addrs[AsmInput[i].name] = AdvanceOfFirst(i - 1)

\* the positions of the returned image from index on that a write has reached
WrittenFrom(index) == {p \in index..Len(AsmOut.memory) : p < DEFAULT_SIZE}

\* C23: the image assemble returns has the default size (no byte is written
\* outside its 65535 bytes) and every byte at a position at or beyond the end
\* of the last emitted instruction is 0x00, also after the patching pass.
C23_ZeroBeyondProgram ==
    (Assembled /\ AsmOut.k = "ok") =>
        /\ Len(AsmOut.memory) <= DEFAULT_SIZE
        /\ \A p \in WrittenFrom(AsmPass.counter) : ImageByte(AsmOut.memory, p) = 0

\* what the code does: a program that ends in Jmp, Cal or Mov with a label
\* operand has the low byte of the label's address one position beyond its
\* end; every byte after that one is 0x00
C23_ZeroBeyondLastSlot ==
    (Assembled /\ AsmOut.k = "ok") =>
        /\ Len(AsmOut.memory) <= DEFAULT_SIZE
        /\ \A p \in WrittenFrom(AsmPass.counter + 1) : ImageByte(AsmOut.memory, p) = 0
        /\ ImageByte(AsmOut.memory, AsmPass.counter) # 0 =>
              \E i \in 1..Len(AsmInput) :
                  /\ HasSlot(i)
                  /\ Slot(i) + 1 = AsmPass.counter
                  /\ ImageByte(AsmOut.memory, AsmPass.counter) =
                         AsmOut.label_addrs[SlotLabel(i)] % 256

\* the tag of a conditional jump: Jmp{cc}Lit or Jmp{cc}Reg
CondTag(node, operand) ==
    Encode(CASE node = "Jne" -> (IF operand = "L" THEN "JmpNELit" ELSE "JmpNEReg")
             [] node = "Jeq" -> (IF operand = "L" THEN "JmpEQLit" ELSE "JmpEQReg")
             [] node = "Jlt" -> (IF operand = "L" THEN "JmpLTLit" ELSE "JmpLTReg")
             [] node = "Jgt" -> (IF operand = "L" THEN "JmpGTLit" ELSE "JmpGTReg")
             [] node = "Jle" -> (IF operand = "L" THEN "JmpLELit" ELSE "JmpLEReg")
             [] node = "Jge" -> (IF operand = "L" THEN "JmpGELit" ELSE "JmpGEReg"))

\* node i is a conditional jump with a label and a literal or a register
IsCondJump(i, operand) ==
    AsmInput[i].node \in CondJumps /\ Shapes(AsmInput[i]) = <<"Lb", operand>>

\* the n bytes of the returned image from position p on
OutBytes(p, n) == [j \in 1..n |-> ImageByte(AsmOut.memory, p + j - 1)]

\* the address recorded for the label node i refers to
RefAddr(i) == to_be_bytes(AsmOut.label_addrs[NodeRef(AsmInput[i])[1]])

\* C24: assembling a conditional jump Jcc label, v produces the tag
\* Jmp{cc}Lit, the 2-byte big-endian address of the label and the 2-byte
\* literal v (5 bytes), or the tag Jmp{cc}Reg, the 2-byte address and the
\* 1-byte register index (4 bytes); the comparison operand is still in the
\* image after patching.
C24_CondJumpLayout ==
    (Assembled /\ AsmOut.k = "ok") =>
        \A i \in 1..Len(AsmInput) :
            /\ IsCondJump(i, "L") =>
                  /\ NodeEnd(i) = NodeStart(i) + 5
                  /\ OutBytes(NodeStart(i), 5) =
                         <<CondTag(AsmInput[i].node, "L")>> \o RefAddr(i)
                             \o to_be_bytes(AsmInput[i].args[2].lit)
            /\ IsCondJump(i, "R") =>
                  /\ NodeEnd(i) = NodeStart(i) + 4
                  /\ OutBytes(NodeStart(i), 4) =
                         <<CondTag(AsmInput[i].node, "R")>> \o RefAddr(i)
                             \o <<AsmInput[i].args[2].reg>>

\* what the code does: the tag, one skipped byte, then the operand, with the
\* slot recorded over the operand; after patching the literal form is the tag,
\* 0x00 and the address (4 bytes), the register form the tag and the address
\* (3 bytes), and the comparison operand is gone
C24_CondJumpOperandOverwritten ==
    (Assembled /\ AsmOut.k = "ok") =>
        \A i \in 1..Len(AsmInput) :
            /\ IsCondJump(i, "L") =>
                  /\ NodeEnd(i) = NodeStart(i) + 4
                  /\ OutBytes(NodeStart(i), 4) =
                         <<CondTag(AsmInput[i].node, "L"), 0>> \o RefAddr(i)
            /\ IsCondJump(i, "R") =>
                  /\ NodeEnd(i) = NodeStart(i) + 3
                  /\ OutBytes(NodeStart(i), 3) =
                         <<CondTag(AsmInput[i].node, "R")>> \o RefAddr(i)

\* the operand widths a tag's name suffix gives, in order: Reg is 1 byte,
\* Lit, Mem and an address are 2 bytes (SysLit carries the low byte only)
SuffixWidths(op) ==
    CASE op \in {"MovLitReg", "MovMemReg", "AddLitReg", "SubLitReg", "MulLitReg",
                 "JmpNEReg", "JmpEQReg", "JmpLTReg", "JmpGTReg", "JmpLEReg", "JmpGEReg"}
            -> <<2, 1>>
      [] op \in {"MovRegMem", "SubRegLit", "ShlRegLit", "ShrRegLit", "AndRegLit",
                 "OrRegLit", "XorRegLit"} -> <<1, 2>>
      [] op \in {"MovRegReg", "MovRegPtrReg", "AddRegReg", "SubRegReg", "MulRegReg",
                 "ShlRegReg", "ShrRegReg", "AndRegReg", "OrRegReg", "XorRegReg"}
            -> <<1, 1>>
      [] op \in {"JmpNELit", "JmpEQLit", "JmpLTLit", "JmpGTLit", "JmpLELit", "JmpGELit",
                 "MovLitMem"} -> <<2, 2>>
      [] op \in {"PshLit", "CalLit", "Jmp"} -> <<2>>
      [] op \in {"PshReg", "Pop", "CalReg", "IncReg", "DecReg", "NotReg", "SysLit"} -> <<1>>
      [] OTHER -> <<>>

\* the widths of the operands of a node, in the order they are written
NodeWidths(n) ==
    IF n.node = "Sys" THEN <<1>>
    ELSE [j \in DOMAIN n.args |-> OperandWidth(Shapes(n)[j])]

\* the tag the linear pass emitted for node i
EmittedTag(i) == Decode(ImageByte(AsmPass.memory, NodeStart(i)))

IsInstruction(i) == i \in 1..Len(AsmInput) /\ AsmInput[i].node # "Label"

\* node i is laid out as the suffix of its tag says
LaidOutByTag(i) ==
    /\ NodeWidths(AsmInput[i]) = SuffixWidths(EmittedTag(i))
    /\ NodeEnd(i) = NodeStart(i) + 1 + SumWidths(Shapes(AsmInput[i]), 1)
           - (IF AsmInput[i].node = "Sys" THEN 1 ELSE 0)

\* C25: every instruction the assembler emits has the operand layout fixed by
\* its tag's name suffix: the same tag is always followed by the same
\* sequence of operand widths in the same order (Reg 1 byte, Lit or Mem
\* address 2 bytes), so an image can be decoded from the tag alone; in
\* particular for both Sub forms that emit SubRegLit and for Mov with a Mem
\* operand.
C25_LayoutFixedByTag ==
    (Assembled /\ AsmPass.k = "ok") =>
        \A i \in 1..Len(AsmInput) : IsInstruction(i) => LaidOutByTag(i)

\* the forms the code lays out differently from their tag: Sub Lit, Reg
\* (SubRegLit followed by literal, register), Xor Reg, Reg (XorRegLit
\* followed by two registers), Mov Reg, Mem(Reg) (MovRegMem followed by two
\* registers), and every form with a label operand
LayoutExceptions(n) ==
    \/ NodeRef(n) # <<>>
    \/ n.node = "Sub" /\ Shapes(n) = <<"L", "R">>
    \/ n.node = "Xor" /\ Shapes(n) = <<"R", "R">>
    \/ n.node = "Mov" /\ Shapes(n) = <<"R", "M(R)">>

\* what the code does: those forms are not laid out by their tag, every other
\* accepted form is
C25_LayoutFixedExceptFor ==
    (Assembled /\ AsmPass.k = "ok") =>
        \A i \in 1..Len(AsmInput) :
            IsInstruction(i) => (LaidOutByTag(i) <=> ~LayoutExceptions(AsmInput[i]))

\* node i is a Mov with these operand shapes
IsMov(i, s1, s2) == AsmInput[i].node = "Mov" /\ Shapes(AsmInput[i]) = <<s1, s2>>

\* node i was emitted with this tag and is n bytes long
EmittedAs(i, op, n) == EmittedTag(i) = op /\ NodeEnd(i) = NodeStart(i) + n

\* C26: Mov form selection follows the table: Mov Reg, Mem(Label or Lit)
\* emits the tag MovRegMem with a 2-byte address, Mov Reg, Mem(Reg) emits the
\* tag MovRegPtrReg, and Mov Mem(Label or Lit), Reg emits the tag MovMemReg.
C26_MovForms ==
    (Assembled /\ AsmPass.k = "ok") =>
        \A i \in 1..Len(AsmInput) :
            /\ (IsMov(i, "R", "M(Lb)") \/ IsMov(i, "R", "M(L)")) => EmittedAs(i, "MovRegMem", 4)
            /\ IsMov(i, "R", "M(R)") => EmittedTag(i) = "MovRegPtrReg"
            /\ (IsMov(i, "M(Lb)", "R") \/ IsMov(i, "M(L)", "R")) => EmittedTag(i) = "MovMemReg"

\* what the code does: Mov Reg, Mem(Reg) emits MovRegMem followed by the two
\* register indices, MovRegPtrReg is emitted for Mov Mem(Reg), Reg, and a
\* label address is given 1 byte
C26_MovFormsEmitted ==
    (Assembled /\ AsmPass.k = "ok") =>
        \A i \in 1..Len(AsmInput) :
            /\ IsMov(i, "R", "M(L)") => EmittedAs(i, "MovRegMem", 4)
            /\ IsMov(i, "R", "M(Lb)") => EmittedAs(i, "MovRegMem", 3)
            /\ IsMov(i, "R", "M(R)") =>
                  /\ EmittedAs(i, "MovRegMem", 3)
                  /\ ImageByte(AsmPass.memory, NodeStart(i) + 1) = AsmInput[i].args[1].reg
                  /\ ImageByte(AsmPass.memory, NodeStart(i) + 2) = AsmInput[i].args[2].arg.reg
            /\ IsMov(i, "M(L)", "R") => EmittedAs(i, "MovMemReg", 4)
            /\ IsMov(i, "M(Lb)", "R") => EmittedAs(i, "MovMemReg", 3)
            /\ IsMov(i, "M(R)", "R") => EmittedAs(i, "MovRegPtrReg", 3)

\* node i is a Xor with these operand shapes
IsXor(i, s1, s2) == AsmInput[i].node = "Xor" /\ Shapes(AsmInput[i]) = <<s1, s2>>

\* the n bytes the linear pass emitted from position p on
PassBytes(p, n) == [j \in 1..n |-> ImageByte(AsmPass.memory, p + j - 1)]

\* C27: Xor form selection follows the table: Xor Reg, Reg emits the tag
\* XorRegReg (0x31) followed by the two register indices, and Xor Reg, Lit
\* emits the tag XorRegLit (0x30) followed by the register index and the
\* 2-byte literal.
C27_XorForms ==
    (Assembled /\ AsmPass.k = "ok") =>
        \A i \in 1..Len(AsmInput) :
            /\ IsXor(i, "R", "R") =>
                  /\ NodeEnd(i) = NodeStart(i) + 3
                  /\ PassBytes(NodeStart(i), 3) =
                         <<49, AsmInput[i].args[1].reg, AsmInput[i].args[2].reg>>
            /\ IsXor(i, "R", "L") =>
                  /\ NodeEnd(i) = NodeStart(i) + 4
                  /\ PassBytes(NodeStart(i), 4) =
                         <<48, AsmInput[i].args[1].reg>> \o to_be_bytes(AsmInput[i].args[2].lit)

\* what the code does: both forms carry the tag XorRegLit (0x30)
C27_XorFormsEmitted ==
    (Assembled /\ AsmPass.k = "ok") =>
        \A i \in 1..Len(AsmInput) :
            /\ IsXor(i, "R", "R") =>
                  /\ NodeEnd(i) = NodeStart(i) + 3
                  /\ PassBytes(NodeStart(i), 3) =
                         <<48, AsmInput[i].args[1].reg, AsmInput[i].args[2].reg>>
            /\ IsXor(i, "R", "L") =>
                  /\ NodeEnd(i) = NodeStart(i) + 4
                  /\ PassBytes(NodeStart(i), 4) =
                         <<48, AsmInput[i].args[1].reg>> \o to_be_bytes(AsmInput[i].args[2].lit)

\* node i is the first node of the program whose operands are not permitted
FirstNotPermitted(i) ==
    /\ i \in 1..Len(AsmInput)
    /\ ~Permitted(AsmInput[i])
    /\ \A j \in 1..(i - 1) : Permitted(AsmInput[j])

ReturnsInvalidArgument == AsmOut.k = "err" /\ AsmOut.e.error = "InvalidArgument"

\* C28: operand type-checking is exhaustive: for every node whose operand
\* pattern the form-selection table does not permit (any Offset operand, a
\* Mem operand outside Mov, Sys with a Label operand, ...) assemble returns
\* the error InvalidArgument and no image; it never accepts such a node and
\* never aborts otherwise.
C28_TypeCheckExhaustive ==
    (Assembled /\ ~AllPermitted) => ReturnsInvalidArgument

\* what the code does: Sys with a Label operand reaches todo!() and aborts,
\* Mov Mem(Reg), Reg is accepted, every other pattern outside the table is
\* rejected with InvalidArgument, and every pattern of the table is accepted
C28_TypeCheckExceptFor ==
    Assembled =>
        \A i \in 1..Len(AsmInput) :
            /\ (\A j \in 1..i : Permitted(AsmInput[j])) => AfterNodes(i).k = "ok"
            /\ FirstNotPermitted(i) =>
                  CASE AsmInput[i].node = "Sys" /\ Shapes(AsmInput[i]) = <<"Lb">> ->
                          AsmOut.k = "panic"
                    [] IsMov(i, "M(R)", "R") -> AfterNodes(i).k = "ok"
                    [] OTHER -> ReturnsInvalidArgument /\ AsmOut = AfterNodes(i)

\* the operand patterns outside the table that the code does not reject
NotRejected(n) ==
    \/ n.node = "Sys" /\ Shapes(n) = <<"Lb">>
    \/ n.node = "Mov" /\ Shapes(n) = <<"M(R)", "R">>

\* the assembler stopped at node i with InvalidArgument for one of its operands
StoppedAt(i) ==
    /\ ReturnsInvalidArgument
    /\ AsmOut = AfterNodes(i)
    /\ \E j \in DOMAIN AsmInput[i].args : AsmOut.e.arg = AsmInput[i].args[j]

\* C29: the assembler halts at the first error in program order and discards
\* the partial bytecode: nodes after the first node with a non-permitted
\* operand are never processed, and when a program has both an undefined
\* label reference and (anywhere) a non-permitted operand the result is
\* InvalidArgument for the first offending node, never InvalidLabel, because
\* patching only runs after the whole linear pass succeeded.
C29_FirstErrorWins ==
    Assembled => \A i \in 1..Len(AsmInput) : FirstNotPermitted(i) => StoppedAt(i)

\* what the code does: the same, counting as offending the nodes the code
\* rejects (Sys with a Label aborts and Mov Mem(Reg), Reg is accepted)
C29_FirstRejectedWins ==
    Assembled =>
        \A i \in 1..Len(AsmInput) :
            (/\ ~Permitted(AsmInput[i]) /\ ~NotRejected(AsmInput[i])
             /\ \A j \in 1..(i - 1) : Permitted(AsmInput[j]) \/ IsMov(j, "M(R)", "R")) =>
                StoppedAt(i)

\* an undefined label is referenced before the node that is rejected
C29_WitnessUndefinedLabelFirst ==
    /\ Assembled
    /\ AsmInput = <<ASTNode("Jmp", <<Label("u")>>), ASTNode("Nop", <<>>),
                    ASTNode("Psh", <<Mem(Lit(7))>>)>>
    /\ ReturnsInvalidArgument
    /\ AsmOut.e.arg = Mem(Lit(7))

\* ---- calls
\* the number of operand bytes of the call of step i
CalOperands(i) == IF IsCalLit(i) THEN 2 ELSE 1

\* the address the call of step i names: the literal A, or regs[R] as the
\* register file is once the operand byte is fetched
CalTarget(i) ==
    IF IsCalLit(i) THEN <<Arg(i, 1), Arg(i, 2)>>
    ELSE RegBytes(RegsAfterFetch(i, 1), Arg(i, 1) % 12)

C30_WitnessCalLit ==
    \E i \in 1..NCalls :
        /\ IsCalLit(i) /\ Completed(i) /\ PreIP(i) > 0
        /\ Word(Post(i), PreSP(i)) = to_be_bytes(PreIP(i) + 3)

C30_WitnessCalRegIP ==
    \E i \in 1..NCalls :
        IsCalReg(i) /\ Completed(i) /\ Arg(i, 1) = IP /\ RegVal(Post(i), IP) = PreIP(i) + 2

\* SP below 2: the push wraps SP around when overflow is not checked
C30_WitnessWrap ==
    \E i \in 1..NCalls : IsCal(i) /\ Completed(i) /\ PreSP(i) = 1 /\ PostSP(i) = U16 - 1

\* ---- MovLitReg
MovLitDest(i) == Arg(i, 3) % 12

MovLitValue(i) == to_u16(<<Arg(i, 1), Arg(i, 2)>>)

\* C31: MovLitReg L,R sets regs[R] := L (bytes stored big-endian) and changes
\* nothing else except IP, which advances by 4 when R is not IP; memory is
\* unchanged.
C31_MovLitReg ==
    \A i \in 1..NCalls :
        IsMovLitReg(i) =>
            /\ Completed(i)
            /\ RegVal(Post(i), MovLitDest(i)) = MovLitValue(i)
            /\ RegBytes(Post(i).registers_memory, MovLitDest(i)) = <<Arg(i, 1), Arg(i, 2)>>
            /\ SameRegsExcept(Pre(i), Post(i), {IP, MovLitDest(i)})
            /\ MovLitDest(i) # IP => RegVal(Post(i), IP) = PreIP(i) + 4
            /\ Post(i).memory = Pre(i).memory

\* a literal with distinct bytes into a register other than IP, away from
\* address 0
C31_Witness ==
    \E i \in 1..NCalls :
        /\ IsMovLitReg(i) /\ Completed(i) /\ PreIP(i) > 0
        /\ MovLitDest(i) # IP /\ Arg(i, 1) # Arg(i, 2)
        /\ RegVal(Post(i), IP) = PreIP(i) + 4

\* the destination is IP: IP is the literal, not the address after the operands
C31_WitnessIP ==
    \E i \in 1..NCalls :
        /\ IsMovLitReg(i) /\ Completed(i) /\ MovLitDest(i) = IP
        /\ RegVal(Post(i), IP) = MovLitValue(i) /\ MovLitValue(i) # PreIP(i) + 4

\* ---- stack faults
IsStackOp(i) == IsPsh(i) \/ IsCal(i) \/ IsPop(i) \/ IsRet(i)

\* C32: every runtime failure of a step is surfaced to the caller as a
\* CpuError value: no reachable CPU state makes a stack operation abort the
\* CPU otherwise, in particular Pop or Ret on an empty stack
\* (SP = memsize - 2) and a push with SP < 2.
C32_StackFaultsAreErrors ==
    \A i \in 1..NCalls : IsStackOp(i) => results[i].k \in {"ok", "err"}

\* what the code does: Pop and Ret whose slot SP + 2 .. SP + 4 is not in
\* memory panic (get_buf(..).unwrap()), so does a push whose slot
\* SP .. SP + 2 is not in memory (set_buf indexes the slice), and a push with
\* SP < 2 panics on SP - 2 when overflow is checked; no stack operation
\* returns a CpuError
C32_StackFaultsPanic ==
    \A i \in 1..NCalls :
        /\ IsStackOp(i) => results[i].k \in {"ok", "panic"}
        /\ (IsPop(i) \/ IsRet(i)) =>
              (results[i].k = "panic" <=>
                  (PopAddr(i) + 2 > MemLen(Pre(i)) \/ (overflow_checks /\ PreSP(i) + 2 >= U16)))
        /\ (IsPsh(i) \/ IsCal(i)) =>
              (results[i].k = "panic" <=>
                  (PreSP(i) + 2 > MemLen(Pre(i)) \/ (overflow_checks /\ PreSP(i) < 2)))

\* ---- register file
IsSetRegister(i) == results[i].call = "set_register"

IsGetRegister(i) == results[i].call = "get_register"

\* C33: the register file round-trips and frames: after set_register(R, v),
\* get_register(R) = v for every register R and 16-bit v, the value occupies
\* bytes 2*index(R) (high) and 2*index(R)+1 (low) of the 24-byte register
\* memory, and every other register keeps its value.
C33_RegisterRoundTrip ==
    \A i \in 1..NCalls :
        /\ IsSetRegister(i) =>
              /\ Len(Post(i).registers_memory) = 24
              /\ Post(i).registers_memory[2 * results[i].v.reg + 1] = results[i].v.value \div 256
              /\ Post(i).registers_memory[2 * results[i].v.reg + 2] = results[i].v.value % 256
              /\ \A b \in 1..24 :
                    b \notin {2 * results[i].v.reg + 1, 2 * results[i].v.reg + 2} =>
                        Post(i).registers_memory[b] = Pre(i).registers_memory[b]
              /\ Post(i).memory = Pre(i).memory
        /\ (IsGetRegister(i) /\ i > 1 /\ IsSetRegister(i - 1)) =>
              /\ Post(i) = Pre(i)
              /\ results[i].v.reg = results[i - 1].v.reg =>
                    results[i].v.value = results[i - 1].v.value
              /\ results[i].v.reg # results[i - 1].v.reg =>
                    results[i].v.value = RegVal(Pre(i - 1), results[i].v.reg)

\* a value with distinct bytes is written to a register and read back
C33_Witness ==
    /\ NCalls = 2
    /\ IsSetRegister(1) /\ results[1].v = [reg |-> R8, value |-> 258]
    /\ IsGetRegister(2) /\ results[2].v = [reg |-> R8, value |-> 258]

\* a register next to the stack pointer is written, SP is read back unchanged
C33_WitnessFrame ==
    /\ NCalls = 2
    /\ IsSetRegister(1) /\ results[1].v = [reg |-> R8, value |-> U16 - 1]
    /\ IsGetRegister(2) /\ results[2].v = [reg |-> SP, value |-> MemSize - 2]

\* ------------------------------------------------------------ C34
\* the last call on the Memory, its arguments and what it returned
MemCall == results[1]
MemBefore == trace[1]
LastWritten == trace[2]
IsRead(c) == c.call \in {"get", "get_buf", "inspect_addr"}

\* C34: reads of Memory are bounds-checked and never fault: get(i) is none
\* exactly when i >= len and otherwise the byte last written at i; get_buf(from,
\* to) is none exactly when to > len or from > to and otherwise the to - from
\* bytes last written at from .. to - 1; neither changes the memory
C34_ReadsBoundsChecked ==
    Len(results) = 1 /\ MemCall.call \in {"get", "get_buf"} =>
        /\ MemCall.k \in {"ok", "none"}
        /\ status = "running"
        /\ image = MemBefore
        /\ MemCall.call = "get" =>
             /\ MemCall.k = "none" <=> MemCall.v.a >= Len(MemBefore)
             /\ MemCall.k = "ok" => MemCall.v.out = <<LastWritten[MemCall.v.a + 1]>>
        /\ MemCall.call = "get_buf" =>
             /\ MemCall.k = "none" <=>
                    (MemCall.v.b > Len(MemBefore) \/ MemCall.v.a > MemCall.v.b)
             /\ MemCall.k = "ok" =>
                    /\ Len(MemCall.v.out) = MemCall.v.b - MemCall.v.a
                    /\ \A k \in 1..Len(MemCall.v.out) :
                           MemCall.v.out[k] = LastWritten[MemCall.v.a + k]

\* a get_buf that ends at the end of the memory returns written bytes
C34_Witness ==
    /\ Len(results) = 1 /\ MemCall.call = "get_buf" /\ MemCall.k = "ok"
    /\ MemCall.v.b = Len(MemBefore) /\ MemCall.v.b - MemCall.v.a = 2
    /\ MemCall.v.out = <<7, 255>>

\* a get at the length of the memory returns none
C34_WitnessNone ==
    /\ Len(results) = 1 /\ MemCall.call = "get" /\ MemCall.k = "none"
    /\ MemCall.v.a = Len(MemBefore) /\ Len(MemBefore) > 0

\* ------------------------------------------------------------ C35
Min(a, b) == IF a < b THEN a ELSE b

C35_WitnessShort ==
    /\ Len(results) = 1 /\ MemCall.call = "inspect_addr" /\ MemCall.k = "ok"
    /\ Len(MemCall.v.out) = 3 /\ Len(MemBefore) = InspectSize

\* the address one past the last byte lists nothing, the next one is refused
C35_WitnessEnd ==
    /\ Len(results) = 1 /\ MemCall.call = "inspect_addr" /\ MemCall.k = "ok"
    /\ MemCall.v.a = Len(MemBefore) /\ MemCall.v.out = <<>> /\ Len(MemBefore) > 0

\* ------------------------------------------------------------ C36
\* opcode bytes of the control transfers (jumps, calls, Ret) and of the stack
\* instructions
ControlBytes == {21, 25, 26, 27} \cup (51..62)

StackBytes == {22, 23, 24}

\* step i executes an instruction that is no control transfer and no stack
\* instruction and that does not name IP as its destination register
StraightLine(i) ==
    /\ IsStep(i)
    /\ Fetched(i) =>
          /\ OpByte(i) \notin ControlBytes \cup StackBytes
          /\ ~(HasArgs(i, OperandBytes(OpByte(i))) /\ DestIsIP(i))

StraightLineUpTo(i) == \A j \in 1..i : StraightLine(j)

\* C36: while the instructions stepped are no control transfers, no stack
\* instructions and never name IP as destination, IP strictly increases at
\* every step, so stepping terminates within memsize steps: it halts at the
\* first Hlt reached or faults with InvalidAddress when a fetch reaches memsize
C36_StraightLineTerminates ==
    \A i \in 1..NCalls :
        StraightLineUpTo(i) =>
            /\ results[i].k \in {"ok", "err"}
            /\ Completed(i) => RegVal(Post(i), IP) > PreIP(i)
            /\ results[i].k = "err" => results[i].v = MemLen(Pre(i))
            /\ Completed(i) /\ results[i].v => OpByte(i) = 28 /\ i = NCalls
            /\ i <= MemLen(Pre(i)) + 1

\* what the code does: IP does increase at every completed step, but a step
\* may also abort: MovRegMem and MovMemReg with an address outside memory and
\* an AddRegReg that overflows under overflow checks panic, and an opcode
\* that execute has no arm for does not complete
C36_StraightLineMayAbort ==
    \A i \in 1..NCalls :
        StraightLineUpTo(i) =>
            /\ Completed(i) => RegVal(Post(i), IP) > PreIP(i)
            /\ results[i].k = "err" => results[i].v = MemLen(Pre(i))
            /\ Completed(i) /\ results[i].v => OpByte(i) = 28 /\ i = NCalls
            /\ i <= MemLen(Pre(i)) + 1
            /\ results[i].k = "panic" =>
                  \/ IsMovRegMem(i) /\ ~InRange(Pre(i), StoreAddr(i))
                  \/ IsMovMemReg(i) /\ ~InRange(Pre(i), LoadAddr(i))
                  \/ IsAddRegReg(i) /\ overflow_checks /\ AddSum(i) >= U16
            /\ results[i].k = "noarm" =>
                  Decode(OpByte(i)) \notin
                      {"MovLitReg", "MovRegReg", "MovRegMem", "MovMemReg", "AddRegReg", "Hlt", "Nop"}

\* a straight-line program that panics, and one that runs into the end
C36_WitnessAbort ==
    \E i \in 1..NCalls : StraightLineUpTo(i) /\ i >= 2 /\ results[i].k = "panic"

\* ------------------------------------------------------------ C37
\* the bytes of a fetch_buf(2) of the instruction of step i are not all in
\* memory: the first operand of MovLitReg, MovMemReg, PshLit and CalLit,
\* either operand of JmpNE, the address of MovRegMem after its register byte
FetchBufFails(i) ==
    /\ Fetched(i)
    /\ \/ OpByte(i) \in {16, 19, 23, 25} /\ ~HasArgs(i, 2)
       \/ OpByte(i) = 21 /\ ~HasArgs(i, 4)
       \/ OpByte(i) = 18 /\ HasArgs(i, 1) /\ ~HasArgs(i, 3)

\* C37: a multi-byte operand fetch that runs past the end of memory is not
\* rolled back: the step fails with InvalidAddress(memsize), IP is left at
\* memsize, and no other register and no memory byte is modified by the step
C37_FetchBufNotRolledBack ==
    \A i \in 1..NCalls :
        IsStep(i) /\ FetchBufFails(i) =>
            /\ results[i].k = "err"
            /\ results[i].v = MemLen(Pre(i))
            /\ RegVal(Post(i), IP) = MemLen(Pre(i))
            /\ SameRegsExcept(Pre(i), Post(i), {IP})
            /\ Post(i).memory = Pre(i).memory

\* one byte of the two remains: IP moves past the opcode and that byte
C37_Witness ==
    \E i \in 1..NCalls :
        /\ IsStep(i) /\ FetchBufFails(i) /\ OpByte(i) = 16
        /\ PreIP(i) = MemLen(Pre(i)) - 2
        /\ RegVal(Post(i), IP) = PreIP(i) + 2
        /\ RegVal(Post(i), SP) = MemLen(Pre(i)) - 2

\* the second fetch_buf of JmpNE fails after the first one succeeded
C37_WitnessSecondOperand ==
    \E i \in 1..NCalls :
        /\ IsStep(i) /\ FetchBufFails(i) /\ OpByte(i) = 21 /\ HasArgs(i, 3)
        /\ RegVal(Post(i), IP) = PreIP(i) + 4

\* ------------------------------------------------------------ C38
IsHlt(i) == IsStep(i) /\ Fetched(i) /\ OpByte(i) = 28

\* C38: the CPU stores no halted state: a step that executes Hlt reports
\* halted and changes only IP, by +1, and a further step call fetches and
\* executes the byte at the new IP; it reports halted again only if that
\* byte is a Hlt too
C38_HltNotAbsorbing ==
    \A i \in 1..NCalls :
        IsHlt(i) =>
            /\ Completed(i) /\ results[i].v
            /\ Post(i).memory = Pre(i).memory
            /\ Post(i).registers_memory = RegsAfterFetch(i, 0)
            /\ (i < NCalls /\ IsStep(i + 1)) =>
                  /\ PreIP(i + 1) = PreIP(i) + 1
                  /\ ~Fetched(i + 1) =>
                        results[i + 1].k = "err" /\ results[i + 1].v = MemLen(Pre(i))
                  /\ Fetched(i + 1) =>
                        /\ OpByte(i + 1) = Byte(Pre(i), PreIP(i) + 1)
                        /\ (Completed(i + 1) /\ results[i + 1].v) <=> OpByte(i + 1) = 28
                        /\ OpByte(i + 1) = 0 =>
                              /\ Completed(i + 1)
                              /\ RegVal(Post(i + 1), IP) = PreIP(i) + 2
                        /\ IsMovLitReg(i + 1) =>
                              RegVal(Post(i + 1), MovLitDest(i + 1)) = MovLitValue(i + 1)

\* the step after a Hlt executes a MovLitReg and does not report halted
C38_Witness ==
    \E i \in 1..(NCalls - 1) :
        /\ IsHlt(i) /\ IsStep(i + 1) /\ IsMovLitReg(i + 1)
        /\ Completed(i + 1) /\ ~results[i + 1].v
        /\ RegVal(Post(i + 1), ACC) = 9

\* two Hlt bytes in a row: each step reports halted and moves on by one
C38_WitnessTwice ==
    \E i \in 1..(NCalls - 1) :
        IsHlt(i) /\ IsHlt(i + 1) /\ RegVal(Post(i + 1), IP) = PreIP(i) + 2

\* ------------------------------------------------------------ C39
\* the Label nodes of the program that define name
Definitions(name) == {i \in 1..Len(AsmInput) : AsmInput[i] = LabelNode(name)}

DefinedTwice == {name \in {"a", "end"} : Cardinality(Definitions(name)) > 1}

\* the last node of a non-empty set of nodes
LastOf(nodes) == CHOOSE i \in nodes : \A j \in nodes : j <= i

\* every label a node refers to has a Label node
ReferencesDefined ==
    \A i \in 1..Len(AsmInput) : HasSlot(i) => Definitions(SlotLabel(i)) # {}

\* C39: when a label name is defined by more than one Label node, assembly
\* still succeeds, and every reference to that name, before, between or
\* after the definitions, is patched with the address of the last of them
C39_LastDefinitionWins ==
    (Assembled /\ AsmPass.k = "ok" /\ ReferencesDefined /\ DefinedTwice # {}) =>
        /\ AsmOut.k = "ok"
        /\ \A name \in DefinedTwice :
              /\ AsmOut.label_addrs[name] = NodeStart(LastOf(Definitions(name)))
              /\ \A i \in 1..Len(AsmInput) :
                    (HasSlot(i) /\ SlotLabel(i) = name) =>
                        to_u16(<<ImageByte(AsmOut.memory, Slot(i)),
                                 ImageByte(AsmOut.memory, Slot(i) + 1)>>)
                            = NodeStart(LastOf(Definitions(name)))

\* two definitions at different addresses, a reference before, between and
\* after them
C39_Witness ==
    /\ Assembled /\ AsmOut.k = "ok"
    /\ Cardinality(Definitions("a")) = 2
    /\ \E d \in Definitions("a") : NodeStart(d) # NodeStart(LastOf(Definitions("a")))
    /\ \E i \in 1..Len(AsmInput) : HasSlot(i) /\ \A d \in Definitions("a") : i < d
    /\ \E i \in 1..Len(AsmInput) :
          HasSlot(i) /\ i < LastOf(Definitions("a")) /\ \E d \in Definitions("a") : d < i
    /\ \E i \in 1..Len(AsmInput) : HasSlot(i) /\ \A d \in Definitions("a") : d < i

\* three definitions
C39_WitnessThree ==
    /\ Assembled /\ AsmOut.k = "ok"
    /\ Cardinality(Definitions("a")) = 3
    /\ AsmOut.label_addrs["a"] > 0

\* ------------------------------------------------------------ C40
IsSub(i, s1, s2) == AsmInput[i].node = "Sub" /\ Shapes(AsmInput[i]) = <<s1, s2>>

\* the n bytes of node i, as the linear pass emitted them and, when assemble
\* returned Ok, as they are in the image
NodeBytesAre(i, bytes) ==
    /\ NodeEnd(i) = NodeStart(i) + Len(bytes)
    /\ PassBytes(NodeStart(i), Len(bytes)) = bytes
    /\ AsmOut.k = "ok" => OutBytes(NodeStart(i), Len(bytes)) = bytes

\* C40: Sub Lit, Reg is emitted as the SubRegLit tag (0x22) followed by the
\* 2-byte literal and then the 1-byte register index, Sub Reg, Lit as the
\* same tag followed by the register index and then the literal
C40_SubLitRegLiteralFirst ==
    (Assembled /\ AsmPass.k = "ok") =>
        \A i \in 1..Len(AsmInput) :
            /\ IsSub(i, "L", "R") =>
                  /\ EmittedTag(i) = "SubRegLit"
                  /\ NodeBytesAre(i, <<34>> \o to_be_bytes(AsmInput[i].args[1].lit)
                                        \o <<AsmInput[i].args[2].reg>>)
            /\ IsSub(i, "R", "L") =>
                  /\ EmittedTag(i) = "SubRegLit"
                  /\ NodeBytesAre(i, <<34, AsmInput[i].args[1].reg>>
                                        \o to_be_bytes(AsmInput[i].args[2].lit))

\* Sub 0x1234, R1 after another instruction, in a program that assembles
C40_Witness ==
    /\ Assembled /\ AsmOut.k = "ok"
    /\ \E i \in 2..Len(AsmInput) :
          /\ IsSub(i, "L", "R")
          /\ OutBytes(NodeStart(i), 4) = <<34, 18, 52, R1>>

C40_WitnessRegLit ==
    /\ Assembled /\ AsmOut.k = "ok"
    /\ \E i \in 1..Len(AsmInput) :
          /\ IsSub(i, "R", "L")
          /\ OutBytes(NodeStart(i), 4) = <<34, R2, 18, 52>>

====
